---- MODULE Spec2Model ----
(***************************************************************************)
(* webpack-bundle-simple-visualizer: the stats normalizer                  *)
(* (getWebpackStatsData), the serve and export commands that call it, and  *)
(* the asset -> modules resolver (getModulesForAsset) behind               *)
(* /api/asset-details/:assetName, all of src/index.ts.                     *)
(*                                                                         *)
(* JSON values are tagged records, so that values of different JavaScript  *)
(* types can be compared: Undefined (a missing field), Null, Num(n),       *)
(* Str(s), Bool(b), Arr(items) and objects (t = "obj") with one field per  *)
(* property the code reads.  A thrown Error is its message, a sequence of  *)
(* text pieces, so that String.prototype.startsWith is a prefix test.      *)
(***************************************************************************)
EXTENDS Integers, Sequences, FiniteSets, TLC

VARIABLES
    command,     \* "serve" or "export": the sub-command that was started
    input,       \* what statsFile.json() yields: a JSON value or a syntax error
    pc,          \* "start", "serving", "exported" or "exited"
    rawStats,    \* the parsed document in memory (normalization works in place)
    statsData,   \* the Report the command holds, Undefined before/without it
    exitCode,    \* process exit code, -1 while running
    stderr,      \* the message of the last console.error of the command
    outputFile,  \* export: the data embedded into the written file, or Undefined
    response,    \* serve: the last HTTP response
    eventData,   \* filter worker: event.data of the message it handled last
    posted,      \* filter worker: the message it posted back
    inbox,       \* messages the page posted that the worker has not handled
    outbox,      \* messages the worker posted that the page has not handled
    app,         \* page: the refs of the application's setup()
    item,        \* page: the refs of one ModuleItem's setup()
    fetches      \* page: the fetch requests that have not settled

vars == <<command, input, pc, rawStats, statsData,
          exitCode, stderr, outputFile, response, eventData, posted,
          inbox, outbox, app, item, fetches>>

\* the page's filter worker (src/public/filter.worker.js)
workerVars == <<eventData, posted, inbox, outbox>>

\* the page (src/public/index.html)
pageVars == <<app, item, fetches>>

(***************************************************************************)
(* Bounds of the model.                                                    *)
(***************************************************************************)
MaxChildren == 2    \* longest `children` array
MaxAssets == 2      \* longest `assets` array
MaxSize == 2        \* largest `size` of an asset or module
MaxProblems == 1    \* longest `errors` / `warnings` array
MaxChunks == 2      \* longest `chunks` array
MaxModules == 2     \* longest top-level `modules` array

(***************************************************************************)
(* JSON / JavaScript values.                                               *)
(***************************************************************************)
Undefined == [t |-> "undefined"]
Null == [t |-> "null"]
Num(n) == [t |-> "num", n |-> n]
Str(s) == [t |-> "str", s |-> s]
Bool(b) == [t |-> "bool", b |-> b]
Arr(items) == [t |-> "arr", items |-> items]
SyntaxError == [t |-> "syntaxerror"]

\* Array.isArray(v)
IsArray(v) == v.t = "arr"

\* typeof v === 'object' && v !== null  (true of arrays too)
IsObjectNotNull(v) == v.t \in {"obj", "arr"}

\* 'f' in v && Array.isArray(v.f), for v with typeof 'object': an array
\* value has none of the properties modules, children, assets
HasArrayField(v, f) == v.t = "obj" /\ IsArray(v[f])

\* v ?? d
Coalesce(v, d) == IF v.t \in {"undefined", "null"} THEN d ELSE v

\* x.size ?? 0, as the number the comparator subtracts
SizeOrZero(x) == IF x.size.t = "num" THEN x.size.n ELSE 0

\* message.startsWith(prefix)
StartsWith(message, prefix) ==
    /\ Len(message) >= Len(prefix)
    /\ SubSeq(message, 1, Len(prefix)) = prefix

RECURSIVE InsertBySizeDesc(_, _)
InsertBySizeDesc(sorted, x) ==
    IF sorted = <<>> THEN <<x>>
    ELSE IF SizeOrZero(x) > SizeOrZero(Head(sorted))
         THEN <<x>> \o sorted
         ELSE <<Head(sorted)>> \o InsertBySizeDesc(Tail(sorted), x)

\* mutant of SortBySizeDesc: the array is left in its order
NoSort(xs) == xs

\* xs.sort((a, b) => (b.size ?? 0) - (a.size ?? 0)): Array.prototype.sort is
\* stable, so elements of equal size keep their order
RECURSIVE SortBySizeDesc(_)
SortBySizeDesc(xs) ==
    IF xs = <<>> THEN <<>>
    ELSE InsertBySizeDesc(SortBySizeDesc(SubSeq(xs, 1, Len(xs) - 1)), xs[Len(xs)])

(***************************************************************************)
(* getWebpackStatsData (src/index.ts 127-219).                             *)
(***************************************************************************)
StatsPath == "<statsPath>"

MsgNotObject == <<"Stats JSON is not an object.">>
MsgMultiNoChild ==
    <<"Multi-compiler stats detected,",
      " but no valid child compilation found and top-level lacks 'assets'.">>
MsgUnrecognized ==
    <<"Unrecognized stats JSON structure:",
      " Missing 'assets' array at top level or in any child compilations.">>
MsgInvalid ==
    <<"Invalid stats format:",
      " 'assets' array not found in effective stats object.">>
MsgSyntax == <<"JSON Parse error:", " Unexpected token">>
MsgWrapPrefix == <<"Error parsing or validating JSON from ", StatsPath, ": ">>

\* the messages the catch block re-throws unchanged
RethrownPrefixes ==
    { <<"Invalid stats format:">>,
      <<"Unrecognized stats JSON structure:">>,
      <<"Stats JSON is not an object.">>,
      <<"First child in multi-compiler stats">> }

\* mutant of IsValidChild: a child is valid with or without assets
IsPlainObject(child) == child.t = "obj"

\* the callback of rawStats.children.find
IsValidChild(child) == IsObjectNotNull(child) /\ HasArrayField(child, "assets")

\* mutant of FirstValidChild: the last valid child instead of the first
LastValidChild(children) ==
    IF \E i \in 1..Len(children) : IsValidChild(children[i])
    THEN CHOOSE i \in 1..Len(children) :
            /\ IsValidChild(children[i])
            /\ \A j \in (i + 1)..Len(children) : ~IsValidChild(children[j])
    ELSE 0

\* rawStats.children.find(...): the index of the first valid child, 0 for
\* undefined
FirstValidChild(children) ==
    IF \E i \in 1..Len(children) : IsValidChild(children[i])
    THEN CHOOSE i \in 1..Len(children) :
            /\ IsValidChild(children[i])
            /\ \A j \in 1..(i - 1) : ~IsValidChild(children[j])
    ELSE 0

Thrown(message) == [threw |-> TRUE, message |-> message]

\* mutant of DetectShape: children are looked at before top-level modules
DetectShapeChildrenFirst(raw) ==
    IF HasArrayField(raw, "children") /\ Len(raw.children.items) > 0
       /\ FirstValidChild(raw.children.items) # 0
    THEN [threw |-> FALSE, child |-> FirstValidChild(raw.children.items)]
    ELSE IF HasArrayField(raw, "modules") /\ Len(raw.modules.items) > 0
    THEN [threw |-> FALSE, child |-> 0]
    ELSE IF HasArrayField(raw, "assets")
    THEN [threw |-> FALSE, child |-> 0]
    ELSE IF HasArrayField(raw, "children") /\ Len(raw.children.items) > 0
    THEN Thrown(MsgMultiNoChild)
    ELSE Thrown(MsgUnrecognized)

\* lines 145-171: which object becomes effectiveStats: child = 0 for rawStats
\* itself, i > 0 for rawStats.children[i]
DetectShape(raw) ==
    IF HasArrayField(raw, "modules") /\ Len(raw.modules.items) > 0
    THEN [threw |-> FALSE, child |-> 0]
    ELSE IF HasArrayField(raw, "children") /\ Len(raw.children.items) > 0
    THEN IF FirstValidChild(raw.children.items) # 0
         THEN [threw |-> FALSE, child |-> FirstValidChild(raw.children.items)]
         ELSE IF HasArrayField(raw, "assets")
              THEN [threw |-> FALSE, child |-> 0]
              ELSE Thrown(MsgMultiNoChild)
    ELSE IF HasArrayField(raw, "assets")
    THEN [threw |-> FALSE, child |-> 0]
    ELSE Thrown(MsgUnrecognized)

Effective(raw, child) == IF child = 0 THEN raw ELSE raw.children.items[child]

\* Array.isArray(v) ? v : []
ArrayOrEmpty(v) == IF IsArray(v) THEN v ELSE Arr(<<>>)

\* count ?? arr.length
CountOrLength(count, arr) == Coalesce(count, Num(Len(arr.items)))

\* mutant of ApplyDefaults: warnings is not coerced
ApplyDefaultsErrorsOnly(eff) ==
    [eff EXCEPT
        !.errors = ArrayOrEmpty(eff.errors),
        !.errorsCount = CountOrLength(eff.errorsCount, ArrayOrEmpty(eff.errors)),
        !.warningsCount = Coalesce(eff.warningsCount, Num(0))]

\* lines 179-183, on the object effectiveStats
ApplyDefaults(eff) ==
    [eff EXCEPT
        !.errors = ArrayOrEmpty(eff.errors),
        !.warnings = ArrayOrEmpty(eff.warnings),
        !.errorsCount = CountOrLength(eff.errorsCount, ArrayOrEmpty(eff.errors)),
        !.warningsCount = CountOrLength(eff.warningsCount, ArrayOrEmpty(eff.warnings))]

\* mutant of TryBlock: a selected document without assets falls through to
\* the children
TryBlockFallingThrough(inp) ==
    IF inp = SyntaxError THEN Thrown(MsgSyntax)
    ELSE IF ~IsObjectNotNull(inp) THEN Thrown(MsgNotObject)
    ELSE IF DetectShape(inp).threw THEN DetectShape(inp)
    ELSE IF ~IsArray(Effective(inp, DetectShape(inp).child).assets)
    THEN IF HasArrayField(inp, "children") /\ Len(inp.children.items) > 0
            /\ FirstValidChild(inp.children.items) # 0
         THEN [threw |-> FALSE,
               child |-> FirstValidChild(inp.children.items),
               effectiveStats |->
                   ApplyDefaults(Effective(inp, FirstValidChild(inp.children.items)))]
         ELSE Thrown(MsgInvalid)
    ELSE [threw |-> FALSE,
          child |-> DetectShape(inp).child,
          effectiveStats |-> ApplyDefaults(Effective(inp, DetectShape(inp).child))]

\* the try block, lines 137-184
TryBlock(inp) ==
    IF inp = SyntaxError THEN Thrown(MsgSyntax)
    ELSE IF ~IsObjectNotNull(inp) THEN Thrown(MsgNotObject)
    ELSE IF DetectShape(inp).threw THEN DetectShape(inp)
    ELSE IF ~IsArray(Effective(inp, DetectShape(inp).child).assets)
    THEN Thrown(MsgInvalid)
    ELSE [threw |-> FALSE,
          child |-> DetectShape(inp).child,
          effectiveStats |-> ApplyDefaults(Effective(inp, DetectShape(inp).child))]

\* the catch block, lines 185-194: the message of the error it throws
CatchBlock(message) ==
    IF \E p \in RethrownPrefixes : StartsWith(message, p)
    THEN message
    ELSE MsgWrapPrefix \o message

\* lines 198-210, on the object effectiveStats
SortAndCoerce(eff) ==
    [eff EXCEPT
        !.assets = Arr(SortBySizeDesc(eff.assets.items)),
        !.modules = ArrayOrEmpty(eff.modules),
        !.chunks = ArrayOrEmpty(eff.chunks)]

\* rawStats after the in-place changes to effectiveStats
WriteBack(raw, child, eff) ==
    IF child = 0 THEN eff
    ELSE [raw EXCEPT !.children = Arr([raw.children.items EXCEPT ![child] = eff])]

\* mutant of GetWebpackStatsData: the defaults of errors and warnings are
\* written before the shape is looked at
GetWebpackStatsDataDefaultsFirst(inp) ==
    IF TryBlock(inp).threw
    THEN [threw |-> TRUE,
          message |-> CatchBlock(TryBlock(inp).message),
          rawStats |-> IF inp = SyntaxError THEN Undefined
                       ELSE IF IsObjectNotNull(inp) THEN ApplyDefaults(inp)
                       ELSE inp]
    ELSE [threw |-> FALSE,
          statsData |-> SortAndCoerce(TryBlock(inp).effectiveStats),
          rawStats |-> WriteBack(inp, TryBlock(inp).child,
                                 SortAndCoerce(TryBlock(inp).effectiveStats))]

\* the whole function, given what statsFile.json() yields: the error thrown,
\* or the Report with the parsed document as the function leaves it
GetWebpackStatsData(inp) ==
    IF TryBlock(inp).threw
    THEN [threw |-> TRUE,
          message |-> CatchBlock(TryBlock(inp).message),
          rawStats |-> IF inp = SyntaxError THEN Undefined ELSE inp]
    ELSE [threw |-> FALSE,
          statsData |-> SortAndCoerce(TryBlock(inp).effectiveStats),
          rawStats |-> WriteBack(inp, TryBlock(inp).child,
                                 SortAndCoerce(TryBlock(inp).effectiveStats))]

(***************************************************************************)
(* getModulesForAsset (src/index.ts 261-288).                              *)
(***************************************************************************)
\* JavaScript truthiness, as `!v` and `a && b` use it
Truthy(v) ==
    CASE v.t \in {"undefined", "null", "syntaxerror"} -> FALSE
      [] v.t = "num" -> v.n # 0
      [] v.t = "str" -> v.s # ""
      [] v.t = "bool" -> v.b
      [] OTHER -> TRUE

Range(xs) == {xs[i] : i \in 1..Len(xs)}

\* new Set(v): the elements of an array, nothing for undefined or null
NewSet(v) == IF IsArray(v) THEN Range(v.items) ELSE {}

\* mutant of FindAsset: the first asset whatever its name
FindFirstAsset(assets, assetName) ==
    IF assets = <<>> THEN 0 ELSE 1

\* allAssets.find(a => a.name === assetName): its index, 0 for undefined
FindAsset(assets, assetName) ==
    IF \E i \in 1..Len(assets) : assets[i].name = Str(assetName)
    THEN CHOOSE i \in 1..Len(assets) :
            /\ assets[i].name = Str(assetName)
            /\ \A j \in 1..(i - 1) : assets[j].name # Str(assetName)
    ELSE 0

\* mutant of SetAdd: objects with equal properties are held once
SetAddByValue(set, x) ==
    IF \E i \in 1..Len(set) : set[i].obj = x.obj THEN set ELSE Append(set, x)

\* Set.prototype.add: a Set of objects holds each object once, in insertion
\* order; an object is the place of the parsed document it sits at (`at`)
SetAdd(set, x) == IF \E i \in 1..Len(set) : set[i].at = x.at THEN set ELSE Append(set, x)

RECURSIVE SetAddAll(_, _)
SetAddAll(set, xs) ==
    IF xs = <<>> THEN set ELSE SetAddAll(SetAdd(set, Head(xs)), Tail(xs))

\* the objects of chunk.modules, chunk being statsData.chunks[i]
ChunkModuleObjects(i, chunk) ==
    [j \in 1..Len(chunk.modules.items) |->
        [at |-> [in |-> "chunks", i |-> i, j |-> j], obj |-> chunk.modules.items[j]]]

\* lines 268-276: the loop over statsData.chunks, from chunk i on
RECURSIVE ScanChunks(_, _, _, _)
ScanChunks(set, chunks, relevantChunkIds, i) ==
    IF i > Len(chunks) THEN set
    ELSE ScanChunks(
            IF chunks[i].id \in relevantChunkIds /\ Truthy(chunks[i].modules)
            THEN SetAddAll(set, ChunkModuleObjects(i, chunks[i]))
            ELSE set,
            chunks, relevantChunkIds, i + 1)

\* module.chunks.some(chunkId => relevantChunkIds.has(chunkId))
SomeChunkRelevant(module, relevantChunkIds) ==
    \E k \in 1..Len(module.chunks.items) : module.chunks.items[k] \in relevantChunkIds

\* lines 279-284: the loop over statsData.modules, from module i on;
\* module.chunks.some throws a TypeError when module.chunks is no array
RECURSIVE ScanModules(_, _, _, _)
ScanModules(set, modules, relevantChunkIds, i) ==
    IF i > Len(modules) THEN [threw |-> FALSE, set |-> set]
    ELSE IF ~IsArray(modules[i].chunks) THEN [threw |-> TRUE]
    ELSE ScanModules(
            IF SomeChunkRelevant(modules[i], relevantChunkIds)
            THEN SetAdd(set, [at |-> [in |-> "modules", i |-> i, j |-> 0],
                              obj |-> modules[i]])
            ELSE set,
            modules, relevantChunkIds, i + 1)

Objects(set) == [i \in 1..Len(set) |-> set[i].obj]

Returned(value) == [threw |-> FALSE, value |-> value]

\* the whole helper: the array it returns, or threw for a TypeError
GetModulesForAsset(stats, assetName) ==
    LET a == FindAsset(stats.assets.items, assetName) IN
    IF a = 0 \/ ~Truthy(stats.chunks) THEN Returned(<<>>)
    ELSE
      LET relevantChunkIds == NewSet(stats.assets.items[a].chunks)
          inlined == ScanChunks(<<>>, stats.chunks.items, relevantChunkIds, 1)
      IN  IF Len(inlined) = 0 /\ Truthy(stats.modules)
          THEN LET top == ScanModules(inlined, stats.modules.items, relevantChunkIds, 1)
               IN  IF top.threw THEN [threw |-> TRUE]
                   ELSE Returned(SortBySizeDesc(Objects(top.set)))
          ELSE Returned(SortBySizeDesc(Objects(inlined)))

(***************************************************************************)
(* The serve and export commands (src/index.ts 229-366, 369-449) and the   *)
(* routes of the server.                                                   *)
(***************************************************************************)
MsgFailedToStart == <<"Failed to start server:">>
MsgExportError == <<"Error during export:">>
MsgNoFile == <<"Error: Stats file not found at ", StatsPath>>
MsgBadPort == <<"Error: Invalid port number">>
MsgListen == <<"Failed to start server. Is port in use?">>
MsgTemplate == <<"ENOENT: no such file or directory">>

NoResponse == [status |-> 0, route |-> "none", body |-> <<>>]

\* no message was sent to the worker, or posted by it
NoMessage == [type |-> "NONE"]

\* mutant of SkipsToCatch: the failure is swallowed and the command goes on
ProceedRegardless(threw) == FALSE

\* try/catch of both commands: a throw of getWebpackStatsData skips the rest
\* of the try block.  (Past the catch test r.threw is false, so the commands'
\* and routes' tests for a missing Report below never take their first arm.)
SkipsToCatch(threw) == threw

\* process.exit(1) after console.error(message)
Exit(message) ==
    /\ pc' = "exited"
    /\ exitCode' = 1
    /\ stderr' = message

\* the action of `serve`, lines 233-366
ServeCommand ==
    /\ pc = "start"
    /\ command = "serve"
    /\ \E portOk \in BOOLEAN, fileExists \in BOOLEAN, listenOk \in BOOLEAN :
        IF ~portOk
        THEN Exit(MsgBadPort) /\ UNCHANGED <<rawStats, statsData>>
        ELSE IF ~fileExists
        THEN Exit(MsgNoFile) /\ UNCHANGED <<rawStats, statsData>>
        ELSE LET r == GetWebpackStatsData(input) IN
             IF SkipsToCatch(r.threw)
             THEN /\ Exit(MsgFailedToStart \o r.message)
                  /\ rawStats' = r.rawStats
                  /\ UNCHANGED statsData
             ELSE IF ~listenOk
             THEN /\ Exit(MsgFailedToStart \o MsgListen)
                  /\ rawStats' = r.rawStats
                  /\ UNCHANGED statsData
             ELSE /\ pc' = "serving"
                  /\ rawStats' = r.rawStats
                  /\ statsData' = IF r.threw THEN Undefined ELSE r.statsData
                  /\ UNCHANGED <<exitCode, stderr>>
    /\ UNCHANGED <<command, input, outputFile, response>>
    /\ UNCHANGED <<workerVars, pageVars>>

\* the object embedded as window.__INITIAL_DATA__, lines 402-412
InitialData(stats) ==
    [statsFilePath |-> StatsPath,
     assets |-> stats.assets,
     warnings |-> stats.warnings,
     errors |-> stats.errors,
     modules |-> stats.modules,
     chunks |-> stats.chunks,
     isExport |-> TRUE]

\* the action of `export`, lines 373-449
ExportCommand ==
    /\ pc = "start"
    /\ command = "export"
    /\ \E fileExists \in BOOLEAN, templateOk \in BOOLEAN :
        IF ~fileExists
        THEN Exit(MsgNoFile) /\ UNCHANGED <<rawStats, statsData, outputFile>>
        ELSE LET r == GetWebpackStatsData(input) IN
             IF SkipsToCatch(r.threw)
             THEN /\ Exit(MsgExportError \o r.message)
                  /\ rawStats' = r.rawStats
                  /\ UNCHANGED <<statsData, outputFile>>
             ELSE IF ~templateOk
             THEN /\ Exit(MsgExportError \o MsgTemplate)
                  /\ rawStats' = r.rawStats
                  /\ statsData' = IF r.threw THEN Undefined ELSE r.statsData
                  /\ UNCHANGED outputFile
             ELSE /\ pc' = "exported"
                  /\ rawStats' = r.rawStats
                  /\ statsData' = IF r.threw THEN Undefined ELSE r.statsData
                  /\ outputFile' = IF r.threw THEN [isExport |-> TRUE]
                                   ELSE InitialData(r.statsData)
                  /\ UNCHANGED <<exitCode, stderr>>
    /\ UNCHANGED <<command, input, response>>
    /\ UNCHANGED <<workerVars, pageVars>>

\* "/api/table", lines 308-311
TableRequest ==
    /\ pc = "serving"
    /\ response' = [status |-> 200, route |-> "table",
                    body |-> IF statsData = Undefined THEN <<>>
                             ELSE statsData.assets.items]
    /\ UNCHANGED <<command, input, pc, rawStats, statsData, exitCode, stderr, outputFile>>
    /\ UNCHANGED <<workerVars, pageVars>>

\* "/api/config", lines 314-323
ConfigRequest ==
    /\ pc = "serving"
    /\ response' = [status |-> 200, route |-> "config",
                    body |-> IF statsData = Undefined THEN <<>>
                             ELSE <<statsData.warnings, statsData.errors>>]
    /\ UNCHANGED <<command, input, pc, rawStats, statsData, exitCode, stderr, outputFile>>
    /\ UNCHANGED <<workerVars, pageVars>>

\* the path parameters the model sends ("%" alone is malformed)
EncodedParams == {"a.js", "b%2Ejs", "zz.js", "%"}

HexDigits == "0123456789ABCDEFabcdef"
IsHexDigit(ch) == \E i \in 1..Len(HexDigits) : SubSeq(HexDigits, i, i) = ch

\* the character an escape sequence stands for (the escapes the requests
\* of the model use)
Unescape(code) ==
    CASE code \in {"2E", "2e"} -> "."
      [] code \in {"2F", "2f"} -> "/"
      [] OTHER -> "?"

\* decodeURIComponent: every %XX becomes its character, a "%" that is not
\* followed by two hex digits throws a URIError
RECURSIVE DecodeURIComponent(_)
DecodeURIComponent(param) ==
    IF param = "" THEN [threw |-> FALSE, value |-> ""]
    ELSE IF Head(param) # "%"
    THEN LET rest == DecodeURIComponent(SubSeq(param, 2, Len(param))) IN
         IF rest.threw THEN rest
         ELSE [threw |-> FALSE, value |-> Head(param) \o rest.value]
    ELSE IF \/ Len(param) < 3
            \/ ~IsHexDigit(SubSeq(param, 2, 2))
            \/ ~IsHexDigit(SubSeq(param, 3, 3))
    THEN [threw |-> TRUE]
    ELSE LET rest == DecodeURIComponent(SubSeq(param, 4, Len(param))) IN
         IF rest.threw THEN rest
         ELSE [threw |-> FALSE, value |-> Unescape(SubSeq(param, 2, 3)) \o rest.value]

\* decodeURIComponent of the parameters the model sends
DecodedParams == {DecodeURIComponent(param) : param \in EncodedParams}

\* "/api/asset-details/:assetName", lines 327-341; an exception in a route
\* is answered by the error handler, lines 347-350
AssetDetailsRequest ==
    /\ pc = "serving"
    /\ \E name \in DecodedParams :
        IF name.threw
        THEN response' = [status |-> 500, route |-> "asset-details", body |-> <<>>,
                          assetName |-> "", helperThrew |-> FALSE]
        ELSE LET r == IF statsData = Undefined THEN [threw |-> TRUE]
                      ELSE GetModulesForAsset(statsData, name.value) IN
             response' = [status |-> IF r.threw THEN 500 ELSE 200,
                          route |-> "asset-details",
                          body |-> IF r.threw THEN <<>> ELSE r.value,
                          assetName |-> name.value,
                          helperThrew |-> r.threw]
    /\ UNCHANGED <<command, input, pc, rawStats, statsData, exitCode, stderr, outputFile>>
    /\ UNCHANGED <<workerVars, pageVars>>

\* any other path: the fetch fallback, lines 344-346
OtherRequest ==
    /\ pc = "serving"
    /\ response' = [status |-> 404, route |-> "other", body |-> <<>>]
    /\ UNCHANGED <<command, input, pc, rawStats, statsData, exitCode, stderr, outputFile>>
    /\ UNCHANGED <<workerVars, pageVars>>

(***************************************************************************)
(* The stats documents the model reads.                                    *)
(***************************************************************************)
\* an object with none of the properties the code reads
EmptyDoc ==
    [t |-> "obj", modules |-> Undefined, children |-> Undefined,
     assets |-> Undefined, chunks |-> Undefined,
     errors |-> Undefined, warnings |-> Undefined,
     errorsCount |-> Undefined, warningsCount |-> Undefined]

Asset(name, size, chunks) == [name |-> Str(name), size |-> size, chunks |-> chunks]
Module(id, size, chunks) == [id |-> id, size |-> size, chunks |-> chunks]
Chunk(id, modules) == [id |-> id, modules |-> modules]

\* all sequences over S of length 0..n
SeqsUpTo(S, n) == UNION {[1..k -> S] : k \in 0..n}

AssetNames == <<"a.js", "b.js", "c.js", "d.js">>
Sizes == {Undefined} \cup {Num(n) : n \in 1..MaxSize}

\* assets arrays of every length up to MaxAssets with every size, the asset
\* at place i named AssetNames[i] (names are unique within a report)
AssetLists ==
    {[i \in 1..Len(sizes) |-> Asset(AssetNames[i], sizes[i], Arr(<<Num(0)>>))] :
        sizes \in SeqsUpTo(Sizes, MaxAssets)}

OneModule == Module(Num(1), Num(1), Arr(<<Num(0)>>))
XY == Arr(<<Asset("x.js", Num(1), Arr(<<>>)), Asset("y.js", Num(2), Arr(<<>>))>>)
Z == Arr(<<Asset("z.js", Undefined, Arr(<<>>))>>)
G == Arr(<<Asset("g.js", Num(1), Arr(<<>>))>>)

\* what an element of `children` can be
ChildValues ==
    { Null,
      Arr(<<>>),
      EmptyDoc,
      [EmptyDoc EXCEPT !.assets = Null],
      [EmptyDoc EXCEPT !.assets = XY, !.errorsCount = Str("3")],
      [EmptyDoc EXCEPT !.assets = Z, !.warnings = Arr(<<Str("w")>>)],
      [EmptyDoc EXCEPT !.assets = Z,
                       !.children = Arr(<<[EmptyDoc EXCEPT !.assets = G]>>)],
      [EmptyDoc EXCEPT !.assets = Z, !.modules = Arr(<<>>),
                       !.children = Arr(<<Null>>)],
      [EmptyDoc EXCEPT !.assets = XY, !.modules = Arr(<<OneModule>>),
                       !.children = Arr(<<[EmptyDoc EXCEPT !.assets = G]>>)] }

\* documents that differ in shape: modules, children, assets
ShapeDocs ==
    {[EmptyDoc EXCEPT !.modules = m, !.children = c, !.assets = a] :
        m \in {Undefined, Null, Arr(<<>>), Arr(<<OneModule>>)},
        c \in {Undefined} \cup {Arr(cs) : cs \in SeqsUpTo(ChildValues, MaxChildren)},
        a \in {Undefined, Null,
               Arr(<<Asset("a.js", Num(1), Arr(<<>>)), Asset("b.js", Num(2), Arr(<<>>))>>)}}

\* single-build documents that differ in the assets to sort
SortDocs ==
    {[EmptyDoc EXCEPT !.modules = m, !.chunks = c, !.assets = Arr(a)] :
        m \in {Undefined, Arr(<<OneModule>>)},
        c \in {Undefined, Null},
        a \in AssetLists}

Problems == {Arr([i \in 1..k |-> Str("problem")]) : k \in 0..MaxProblems}
Counts == {Undefined, Null, Num(0), Num(2), Str("3")}

\* single-build documents that differ in errors, warnings and their counts
ProblemDocs ==
    {[EmptyDoc EXCEPT !.assets = Arr(<<>>), !.errors = e, !.warnings = w,
                      !.errorsCount = ec, !.warningsCount = wc] :
        e \in {Undefined, Null} \cup Problems,
        w \in {Undefined, Str("none")} \cup Problems,
        ec \in Counts, wc \in Counts}

\* what is no JSON object, and a file that is no JSON
NonObjects ==
    { SyntaxError, Null, Num(1), Str("stats"), Bool(TRUE), Arr(<<>>),
      Arr(<<[EmptyDoc EXCEPT !.assets = Z]>>) }

\* the modules chunk i can inline: one of its own, and one that every chunk
\* lists with the same properties
InlinedLists(i) ==
    { Undefined,
      Arr(<<Module(Num(10 * i + 1), Num(1), Arr(<<Num(i - 1)>>))>>),
      Arr(<<Module(Num(10 * i + 1), Num(1), Arr(<<Num(i - 1)>>)),
            Module(Num(2), Num(2), Arr(<<Num(0), Num(1)>>))>>) }
ChunkLists ==
    {Undefined} \cup
    UNION {{Arr([i \in 1..k |-> Chunk(Num(i - 1), ms[i])]) :
                ms \in {f \in [1..k -> UNION {InlinedLists(i) : i \in 1..k}] :
                            \A i \in 1..k : f[i] \in InlinedLists(i)}} :
           k \in 0..MaxChunks}
ModuleChunks == {Undefined, Arr(<<Num(0)>>), Arr(<<Num(1)>>)}
\* the module at place i has size i; the second one can have size 1 too
ModuleLists ==
    {Undefined} \cup
    UNION {{Arr([i \in 1..k |-> Module(Num(i), Num(sz[i]), cs[i])]) :
                sz \in {f \in [1..k -> 1..k] :
                            \A i \in 1..k : f[i] \in IF i = 2 THEN {1, i} ELSE {i}},
                cs \in [1..k -> ModuleChunks]} :
           k \in 0..MaxModules}
AssetChunks == {Arr(<<>>), Arr(<<Num(0)>>), Arr(<<Str("0")>>), Arr(<<Num(0), Num(1)>>)}

\* single-build documents that differ in what links assets to modules
LinkDocs ==
    {[EmptyDoc EXCEPT !.assets = Arr(<<Asset("b.js", Num(1), Arr(<<Num(1)>>)),
                                       Asset("a.js", Num(2), ac)>>),
                      !.chunks = c, !.modules = m] :
        ac \in AssetChunks, c \in ChunkLists, m \in ModuleLists}

\* export resolves no asset: it reads the documents of LinkDocs that have
\* no top-level modules
Init ==
    /\ \/ /\ command \in {"serve", "export"}
          /\ input \in ShapeDocs \cup SortDocs \cup ProblemDocs \cup NonObjects
       \/ /\ command = "serve"
          /\ input \in LinkDocs
       \/ /\ command = "export"
          /\ input \in {d \in LinkDocs : d.modules = Undefined}
    /\ pc = "start"
    /\ rawStats = Undefined
    /\ statsData = Undefined
    /\ exitCode = -1
    /\ stderr = <<>>
    /\ outputFile = Undefined
    /\ response = NoResponse
    /\ eventData = NoMessage
    /\ posted = NoMessage
    /\ inbox = <<>>
    /\ outbox = <<>>
    /\ app = Undefined
    /\ item = Undefined
    /\ fetches = <<>>

Next ==
    \/ ServeCommand
    \/ ExportCommand
    \/ TableRequest
    \/ ConfigRequest
    \/ AssetDetailsRequest
    \/ OtherRequest

Spec == Init /\ [][Next]_vars

(***************************************************************************)
(* Vocabulary of the properties.                                           *)
(***************************************************************************)
\* a Report is held: getWebpackStatsData returned
HasReport == statsData # Undefined

\* object-shaped with an `assets` array
Qualifies(v) == v.t = "obj" /\ v.assets.t = "arr"

NonEmptyArray(v) == v.t = "arr" /\ Len(v.items) > 0

\* no non-empty top-level modules, non-empty children
MultiBuild(doc) ==
    doc.t = "obj" /\ ~NonEmptyArray(doc.modules) /\ NonEmptyArray(doc.children)

\* a single build with an assets array
SingleBuild(doc) ==
    doc.t = "obj" /\ doc.assets.t = "arr"
    /\ (NonEmptyArray(doc.modules) \/ ~NonEmptyArray(doc.children))

\* the document the Report was made of: the input or one of its children
Source == Effective(input, DetectShape(input).child)

\* what normalization turns a selected document into
Normalized(doc) == SortAndCoerce(ApplyDefaults(doc))

OrderingSize(x) == IF x.size.t = "num" THEN x.size.n ELSE 0
NonIncreasing(xs) ==
    \A i \in 1..Len(xs), j \in 1..Len(xs) : i < j => OrderingSize(xs[i]) >= OrderingSize(xs[j])
IsPermutation(xs, ys) ==
    /\ Len(xs) = Len(ys)
    /\ \E p \in [1..Len(xs) -> 1..Len(xs)] :
        /\ \A i \in 1..Len(xs), j \in 1..Len(xs) : p[i] = p[j] => i = j
        /\ \A i \in 1..Len(xs) : xs[i] = ys[p[i]]

\* failures of the command that happen outside getWebpackStatsData
EnvironmentFailures ==
    {MsgBadPort, MsgNoFile, MsgFailedToStart \o MsgListen, MsgExportError \o MsgTemplate}

\* the command ended because getWebpackStatsData threw; ThrownMessage is the
\* message of that error
NormalizeFailed == pc = "exited" /\ stderr \notin EnvironmentFailures
ThrownMessage == SubSeq(stderr, 2, Len(stderr))

KindOf(message) ==
    CASE StartsWith(message, <<"Stats JSON is not an object.">>) -> "NotAnObject"
      [] StartsWith(message, <<"Unrecognized stats JSON structure:">>) -> "UnrecognizedShape"
      [] StartsWith(message, <<"Invalid stats format:">>) -> "MissingAssetsArray"
      [] StartsWith(message, <<"Multi-compiler stats detected,">>) -> "NoValidChild"
      [] StartsWith(message, <<"Error parsing or validating JSON from ">>) -> "ParseOrValidation"
      [] OTHER -> "Other"

(***************************************************************************)
(* C1.  For a multi-build document normalize selects the first child in    *)
(* array order that is object-shaped and has an `assets` array, skipping   *)
(* earlier children that lack one: the Report is that child, normalized,   *)
(* and normalization does not fail when such a child exists.               *)
(***************************************************************************)
C1_FirstQualifyingChild ==
    MultiBuild(input) =>
        \A i \in 1..Len(input.children.items) :
            ( /\ Qualifies(input.children.items[i])
              /\ \A j \in 1..(i - 1) : ~Qualifies(input.children.items[j]) )
            => /\ HasReport => statsData = Normalized(input.children.items[i])
               /\ ~NormalizeFailed

\* the first child is an object without assets, the second has them and is
\* what the server serves
C1_Witness ==
    /\ pc = "serving"
    /\ MultiBuild(input)
    /\ Len(input.children.items) >= 2
    /\ input.children.items[1].t = "obj"
    /\ ~Qualifies(input.children.items[1])
    /\ Qualifies(input.children.items[2])
    /\ statsData = Normalized(input.children.items[2])
    /\ statsData.assets.items # <<>>

(***************************************************************************)
(* C2.  For a single-build document with an `assets` array, the Report's   *)
(* assets are a permutation of the input assets (same length, every asset  *)
(* with its own fields, `size` included, unchanged) and are non-increasing *)
(* by size, a missing size counting as 0.                                  *)
(***************************************************************************)
C2_AssetsSortedPermutation ==
    (HasReport /\ SingleBuild(input)) =>
        /\ IsPermutation(statsData.assets.items, input.assets.items)
        /\ NonIncreasing(statsData.assets.items)

\* the input was out of order and has an asset without size
C2_Witness ==
    /\ HasReport
    /\ SingleBuild(input)
    /\ ~NonIncreasing(input.assets.items)
    /\ \E i \in 1..Len(input.assets.items) : input.assets.items[i].size = Undefined
    /\ statsData.assets.items # input.assets.items

(***************************************************************************)
(* C3.  Normalization is idempotent: normalizing the returned Report again *)
(* succeeds and yields the same Report -- as claimed, for every input,     *)
(* also when the Report still carries a non-empty `children` array and an  *)
(* empty `modules` array.                                                  *)
(***************************************************************************)
Renormalized == GetWebpackStatsData(statsData)

C3_IdempotentAsClaimed ==
    HasReport => (~Renormalized.threw /\ Renormalized.statsData = statsData)

\* the Report has no modules and one of its own children qualifies
HasQualifyingChild(report) ==
    /\ ~NonEmptyArray(report.modules)
    /\ NonEmptyArray(report.children)
    /\ \E i \in 1..Len(report.children.items) : Qualifies(report.children.items[i])

(***************************************************************************)
(* C3, amended.  Normalizing the returned Report again succeeds; it yields *)
(* the same Report unless the Report has an empty `modules` array and a    *)
(* `children` array with an object-shaped element that has an `assets`     *)
(* array: then the second normalization yields the first such child,       *)
(* normalized, which is another Report.                                    *)
(***************************************************************************)
C3_IdempotentUnlessNestedChild ==
    HasReport =>
        /\ ~Renormalized.threw
        /\ ~HasQualifyingChild(statsData) => Renormalized.statsData = statsData
        /\ HasQualifyingChild(statsData) =>
            /\ Renormalized.statsData # statsData
            /\ \A i \in 1..Len(statsData.children.items) :
                ( /\ Qualifies(statsData.children.items[i])
                  /\ \A j \in 1..(i - 1) : ~Qualifies(statsData.children.items[j]) )
                => Renormalized.statsData = Normalized(statsData.children.items[i])

\* the Report is a selected child that still has children and no modules,
\* and normalizing it again gives it back
C3_Witness ==
    /\ HasReport
    /\ DetectShape(input).child # 0
    /\ NonEmptyArray(statsData.children)
    /\ statsData.modules = Arr(<<>>)
    /\ ~Renormalized.threw
    /\ Renormalized.statsData = statsData
    /\ statsData # Source

(***************************************************************************)
(* C4.  After a successful normalize `errors` and `warnings` are arrays,   *)
(* empty when the source field is missing or not an array -- and, as       *)
(* claimed, for every document with `errors` omitted `errors` is [] and    *)
(* `errorsCount` is 0.                                                     *)
(***************************************************************************)
ProblemsAreArrays ==
    /\ IsArray(statsData.errors)
    /\ IsArray(statsData.warnings)
    /\ ~IsArray(Source.errors) => statsData.errors = Arr(<<>>)
    /\ ~IsArray(Source.warnings) => statsData.warnings = Arr(<<>>)

C4_ErrorsOmittedAsClaimed ==
    HasReport =>
        /\ ProblemsAreArrays
        /\ Source.errors = Undefined =>
            (statsData.errors = Arr(<<>>) /\ statsData.errorsCount = Num(0))

(***************************************************************************)
(* C4, amended.  After a successful normalize `errors` and `warnings` are  *)
(* arrays, empty when the source field is missing or not an array; for a   *)
(* document with `errors` omitted and `errorsCount` omitted or null,       *)
(* `errors` is [] and `errorsCount` is 0.                                  *)
(***************************************************************************)
C4_ErrorsOmitted ==
    HasReport =>
        /\ ProblemsAreArrays
        /\ Source.errors = Undefined => statsData.errors = Arr(<<>>)
        /\ (Source.errors = Undefined /\ Source.errorsCount \in {Undefined, Null}) =>
            statsData.errorsCount = Num(0)

\* errors and errorsCount omitted, warnings a string
C4_Witness ==
    /\ HasReport
    /\ Source.errors = Undefined
    /\ Source.errorsCount = Undefined
    /\ Source.warnings.t = "str"
    /\ statsData.errors = Arr(<<>>)
    /\ statsData.warnings = Arr(<<>>)
    /\ statsData.errorsCount = Num(0)

(***************************************************************************)
(* C5.  After a successful normalize errorsCount (warningsCount) is the    *)
(* source value when the source gave a number, and the length of the       *)
(* normalized errors (warnings) array otherwise, also when the source gave *)
(* a count that is no number, such as a string.                            *)
(***************************************************************************)
CountAsClaimed(sourceCount, array) ==
    IF sourceCount.t = "num" THEN sourceCount ELSE Num(Len(array.items))

C5_CountsAreNumbers ==
    HasReport =>
        /\ statsData.errorsCount = CountAsClaimed(Source.errorsCount, statsData.errors)
        /\ statsData.warningsCount = CountAsClaimed(Source.warningsCount, statsData.warnings)

(***************************************************************************)
(* C6.  normalize fails with the kind NotAnObject for every parsed input   *)
(* that is no JSON object: null, numbers, strings, booleans and arrays.    *)
(***************************************************************************)
C6_NotAnObject ==
    (NormalizeFailed /\ input.t \in {"null", "num", "str", "bool", "arr"}) =>
        KindOf(ThrownMessage) = "NotAnObject"

(***************************************************************************)
(* C7.  Every structural failure of normalize (the file parsed, and        *)
(* normalize threw) reaches the caller as a structure failure with its own *)
(* kind; none is rewrapped as the generic parse/validation error that a    *)
(* JSON syntax error gives.                                                *)
(***************************************************************************)
C7_StructureFailuresTyped ==
    (NormalizeFailed /\ input # SyntaxError) =>
        KindOf(ThrownMessage) \in
            {"NotAnObject", "UnrecognizedShape", "MissingAssetsArray", "NoValidChild"}

(***************************************************************************)
(* C8.  When normalize fails the command never goes on with a Report: the  *)
(* server answers no route, export writes no file, and the run ends with   *)
(* exit code 1 and the failure on stderr (unless the port or the file was  *)
(* rejected before normalize ran).                                         *)
(***************************************************************************)
C8_FailureIsFatal ==
    (pc # "start" /\ GetWebpackStatsData(input).threw) =>
        /\ pc = "exited"
        /\ exitCode = 1
        /\ statsData = Undefined
        /\ outputFile = Undefined
        /\ response = NoResponse
        /\ \/ stderr \in {MsgBadPort, MsgNoFile}
           \/ stderr = (IF command = "serve" THEN MsgFailedToStart ELSE MsgExportError)
                       \o GetWebpackStatsData(input).message

\* export of a document of unrecognized shape ended with the failure
C8_Witness ==
    /\ pc = "exited"
    /\ command = "export"
    /\ input.t = "obj"
    /\ GetWebpackStatsData(input).threw
    /\ stderr = MsgExportError \o MsgUnrecognized
    /\ outputFile = Undefined

(***************************************************************************)
(* C9.  getModulesForAsset, called with a name that is the name of no      *)
(* asset of the Report, returns the empty array and does not throw.        *)
(***************************************************************************)
AssetNamesOf(report) ==
    {report.assets.items[i].name.s : i \in 1..Len(report.assets.items)}

C9_UnknownAssetEmpty ==
    /\ (HasReport /\ pc = "serving") =>
        \A name \in {"zz.js", "", "modules"} \ AssetNamesOf(statsData) :
            GetModulesForAsset(statsData, name) = Returned(<<>>)
    /\ (response.route = "asset-details" /\ response.assetName \notin AssetNamesOf(statsData)
        /\ response.assetName # "") =>
        (response.status = 200 /\ response.body = <<>> /\ ~response.helperThrew)

\* an unknown name was asked of a Report in which a known name has modules
C9_Witness ==
    /\ response.route = "asset-details"
    /\ response.assetName = "zz.js"
    /\ response.status = 200
    /\ response.body = <<>>
    /\ GetModulesForAsset(statsData, "a.js") # Returned(<<>>)

(***************************************************************************)
(* C10.  getModulesForAsset returns the empty array whenever the Report's  *)
(* chunks array is empty, even if the asset exists and top-level modules   *)
(* list chunk ids of the asset (stated of the calls that return).          *)
(***************************************************************************)
C10_EmptyChunksEmptyResult ==
    (response.route = "asset-details" /\ response.status = 200
     /\ statsData.chunks = Arr(<<>>)) =>
        response.body = <<>>

(***************************************************************************)
(* The later server (src/README.md 82-545): the same normalizer, helper    *)
(* and routes, two lookup maps over the top-level modules and the route    *)
(* "/api/module-dependencies/:moduleIdOrIdentifier".                       *)
(***************************************************************************)
Digits == "0123456789"

\* Number.prototype.toString of a non-negative integer
RECURSIVE DecimalString(_)
DecimalString(n) ==
    IF n < 10 THEN SubSeq(Digits, n + 1, n + 1)
    ELSE DecimalString(n \div 10) \o SubSeq(Digits, (n % 10) + 1, (n % 10) + 1)

\* String(v) of an id
String(v) ==
    CASE v.t = "str" -> v.s
      [] v.t = "num" -> DecimalString(v.n)
      [] v.t = "null" -> "null"
      [] OTHER -> "undefined"

\* moduleIdOrIdentifier.includes(part)
Includes(whole, part) ==
    \E i \in 1..(Len(whole) - Len(part) + 1) :
        SubSeq(whole, i, i + Len(part) - 1) = part

\* mod.id !== null && mod.id !== undefined
Present(v) == v.t \notin {"null", "undefined"}

\* modulesById: a Map keeps the value last set for a key, and finds a key by
\* SameValueZero, under which a number and a string differ.  The place in
\* statsData.modules of the module the map holds for the key, 0 for none
ModulesById(modules, key) ==
    LET at == {i \in 1..Len(modules) : Present(modules[i].id) /\ modules[i].id = key} IN
    IF at = {} THEN 0 ELSE CHOOSE i \in at : \A j \in at : j <= i

\* modulesByIdentifier, likewise
ModulesByIdentifier(modules, key) ==
    LET at == {i \in 1..Len(modules) :
                Truthy(modules[i].identifier) /\ modules[i].identifier = key} IN
    IF at = {} THEN 0 ELSE CHOOSE i \in at : \A j \in at : j <= i

\* (statsData.modules || []).find(m => m.name === moduleIdOrIdentifier)
FindByName(modules, key) ==
    LET at == {i \in 1..Len(modules) : modules[i].name = key} IN
    IF at = {} THEN 0 ELSE CHOOSE i \in at : \A j \in at : i <= j

\* mutant of TargetModule: modulesByIdentifier is asked before modulesById
TargetModuleIdentifierFirst(modules, moduleIdOrIdentifier) ==
    LET key == Str(moduleIdOrIdentifier) IN
    IF ModulesByIdentifier(modules, key) # 0 THEN ModulesByIdentifier(modules, key)
    ELSE IF ModulesById(modules, key) # 0 THEN ModulesById(modules, key)
    ELSE IF Includes(moduleIdOrIdentifier, "/") THEN FindByName(modules, key)
    ELSE 0

\* lines 463-475: the place of targetModule in statsData.modules, 0 for
\* undefined; the request's parameter is a string
TargetModule(modules, moduleIdOrIdentifier) ==
    LET key == Str(moduleIdOrIdentifier) IN
    IF ModulesById(modules, key) # 0 THEN ModulesById(modules, key)
    ELSE IF ModulesByIdentifier(modules, key) # 0 THEN ModulesByIdentifier(modules, key)
    ELSE IF Includes(moduleIdOrIdentifier, "/") THEN FindByName(modules, key)
    ELSE 0

\* mutant of IsDependent: the ids are compared as they are
IsDependentSameType(targetModule, potentialChild) ==
    \/ /\ Present(targetModule.id)
       /\ Present(potentialChild.issuerId)
       /\ potentialChild.issuerId = targetModule.id
    \/ /\ Truthy(targetModule.identifier)
       /\ potentialChild.issuer = targetModule.identifier

\* lines 492-499: the two tests of the issuer scan
IsDependent(targetModule, potentialChild) ==
    \/ /\ Present(targetModule.id)
       /\ Present(potentialChild.issuerId)
       /\ String(potentialChild.issuerId) = String(targetModule.id)
    \/ /\ Truthy(targetModule.identifier)
       /\ potentialChild.issuer = targetModule.identifier

\* mutant of DirectDependencies: the issuer scan runs for every target
DependenciesAndIssued(modules, t) ==
    (IF NonEmptyArray(modules[t].modules) THEN modules[t].modules.items ELSE <<>>)
    \o SelectSeq(modules, LAMBDA m : IsDependent(modules[t], m))

\* lines 478-502: directDependencies before the sort, for the target at
\* place t; each module is pushed once, in the order of statsData.modules
DirectDependencies(modules, t) ==
    IF NonEmptyArray(modules[t].modules)
    THEN modules[t].modules.items
    ELSE SelectSeq(modules, LAMBDA m : IsDependent(modules[t], m))

\* mutant of SortDependencies: the array is returned as collected
LeaveUnsorted(deps) == deps

\* line 510: directDependencies.sort((a, b) => (b.size ?? 0) - (a.size ?? 0))
SortDependencies(deps) == SortBySizeDesc(deps)

\* the whole handler past decodeURIComponent: the array it answers with,
\* the place of the target and the Report after the call.  With a target
\* that has concatenated modules directDependencies IS targetModule.modules
\* (line 482), so the sort of line 510 reorders the Report's own array
ModuleDependencies(stats, moduleIdOrIdentifier) ==
    LET modules == IF Truthy(stats.modules) THEN stats.modules.items ELSE <<>>
        t == TargetModule(modules, moduleIdOrIdentifier)
    IN  IF t = 0
        THEN [value |-> SortDependencies(<<>>), target |-> 0, stats |-> stats]
        ELSE LET sorted == SortDependencies(DirectDependencies(modules, t)) IN
             [value |-> sorted, target |-> t,
              stats |-> IF NonEmptyArray(modules[t].modules)
                        THEN [stats EXCEPT !.modules.items[t].modules.items = sorted]
                        ELSE stats]

\* the references the model asks dependencies of, URI-encoded
EncodedModuleRefs == {"1", "%2Fabs%2Fa.js", ".%2Fa.js", "9", "%"}

\* decodeURIComponent of them
DecodedModuleRefs == {DecodeURIComponent(param) : param \in EncodedModuleRefs}

\* "/api/module-dependencies/:moduleIdOrIdentifier", lines 451-515; an
\* exception in a route is answered by the error handler
ModuleDependenciesRequest ==
    /\ pc = "serving"
    /\ \E ref \in DecodedModuleRefs :
        IF ref.threw \/ statsData = Undefined
        THEN /\ response' = [status |-> 500, route |-> "module-dependencies",
                             body |-> <<>>, moduleRef |-> "", target |-> 0]
             /\ UNCHANGED <<rawStats, statsData>>
        ELSE LET r == ModuleDependencies(statsData, ref.value) IN
             /\ response' = [status |-> 200, route |-> "module-dependencies",
                             body |-> r.value, moduleRef |-> ref.value,
                             target |-> r.target]
             /\ statsData' = r.stats
             /\ rawStats' = WriteBack(rawStats, TryBlock(input).child, r.stats)
    /\ UNCHANGED <<command, input, pc, exitCode, stderr, outputFile>>
    /\ UNCHANGED <<workerVars, pageVars>>

MaxDependents == 2    \* most top-level modules next to the first one

DepModule(id, identifier, name, size, issuer, issuerId, modules) ==
    [id |-> id, identifier |-> identifier, name |-> name, size |-> size,
     chunks |-> Arr(<<Num(0)>>), issuer |-> issuer, issuerId |-> issuerId,
     modules |-> modules]

\* the modules concatenated into a module, smaller one first
Concatenated ==
    Arr(<<DepModule(Null, Str("/abs/a1.js"), Str("./a1.js"), Num(1),
                    Null, Null, Undefined),
          DepModule(Null, Str("/abs/a2.js"), Str("./a2.js"), Num(2),
                    Null, Null, Undefined)>>)

\* the first top-level module, a.js: its id and identifier, and what it
\* concatenates
TargetKeys ==
    { <<Num(1), Undefined>>, <<Str("1"), Undefined>>,
      <<Num(1), Str("/abs/a.js")>>, <<Undefined, Str("/abs/a.js")>> }
TargetModules ==
    {DepModule(k[1], k[2], Str("./a.js"), Num(1), Null, Null, c) :
        k \in TargetKeys, c \in {Undefined, Arr(<<>>), Concatenated}}

\* how another module names its issuer: issuerId and issuer
IssuerLinks ==
    { <<Undefined, Null>>, <<Num(1), Null>>,
      <<Str("1"), Str("/abs/a.js")>>, <<Null, Str("/abs/a.js")>> }
\* the top-level module at place i + 1; the first of them has no size
OtherModules(i) ==
    {DepModule(Num(i + 1), Str("/abs/m" \o DecimalString(i)),
               Str("./m" \o DecimalString(i)),
               IF i = 1 THEN Undefined ELSE Num(i), l[2], l[1], Undefined) :
        l \in IssuerLinks}

DepModuleLists ==
    UNION {{<<t>> \o others :
                t \in TargetModules,
                others \in {f \in [1..k -> UNION {OtherModules(i) : i \in 1..k}] :
                                \A i \in 1..k : f[i] \in OtherModules(i)}} :
           k \in 0..MaxDependents}

\* chunk 0 without inlined modules, and with two
DepChunks ==
    {Arr(<<Chunk(Num(0), m)>>) : m \in {Undefined, Concatenated}}

\* single-build documents that differ in their modules: one asset of chunk 0
DepDocs ==
    {[EmptyDoc EXCEPT !.assets = Arr(<<Asset("a.js", Num(1), Arr(<<Num(0)>>))>>),
                      !.chunks = c, !.modules = Arr(m)] :
        c \in DepChunks, m \in DepModuleLists}

\* modules that one reference names in three ways: "./a.js" is the name of
\* the first, the id of the second and the identifier of the third; the
\* last one is named "1" and has no id
NamedAlike ==
    { DepModule(Num(1), Str("/abs/a.js"), Str("./a.js"), Num(1), Null, Null, Undefined),
      DepModule(Str("./a.js"), Str("/abs/x.js"), Str("./x.js"), Num(2),
                Str("/abs/a.js"), Null, Undefined),
      DepModule(Num(5), Str("./a.js"), Str("./y.js"), Num(3),
                Null, Str("./a.js"), Undefined),
      DepModule(Null, Str("/abs/n.js"), Str("1"), Num(4),
                Str("./a.js"), Null, Undefined) }

\* some of them, in every order
NamedAlikeLists ==
    {ms \in SeqsUpTo(NamedAlike, Cardinality(NamedAlike)) :
        /\ ms # <<>>
        /\ \A i \in 1..Len(ms), j \in 1..Len(ms) : ms[i] = ms[j] => i = j}

\* single-build documents that differ in which module a reference names
ResolutionDocs ==
    {[EmptyDoc EXCEPT !.assets = Arr(<<Asset("a.js", Num(1), Arr(<<Num(0)>>))>>),
                      !.chunks = Arr(<<Chunk(Num(0), Undefined)>>),
                      !.modules = Arr(ms)] :
        ms \in NamedAlikeLists}

InitDeps ==
    /\ command = "serve"
    /\ input \in DepDocs \cup ResolutionDocs
    /\ pc = "start"
    /\ rawStats = Undefined
    /\ statsData = Undefined
    /\ exitCode = -1
    /\ stderr = <<>>
    /\ outputFile = Undefined
    /\ response = NoResponse
    /\ eventData = NoMessage
    /\ posted = NoMessage
    /\ inbox = <<>>
    /\ outbox = <<>>
    /\ app = Undefined
    /\ item = Undefined
    /\ fetches = <<>>

NextDeps ==
    \/ ServeCommand
    \/ TableRequest
    \/ ConfigRequest
    \/ AssetDetailsRequest
    \/ ModuleDependenciesRequest
    \/ OtherRequest

SpecDeps == InitDeps /\ [][NextDeps]_vars

(***************************************************************************)
(* C11.  getModulesForAsset compares chunk ids in string form: a module    *)
(* inlined in a chunk is returned when the chunk's id and a chunk id of    *)
(* the asset have the same string form (0 and "0"), and in the fallback a  *)
(* top-level module is returned when one of its chunk ids and a chunk id   *)
(* of the asset have the same string form (stated of the calls that        *)
(* return).                                                                *)
(***************************************************************************)
WantedChunkIds(asset) == {String(c) : c \in NewSet(asset.chunks)}

InlinedByStringId(report, asset) ==
    UNION {NewSet(report.chunks.items[i].modules) :
            i \in {k \in 1..Len(report.chunks.items) :
                    String(report.chunks.items[k].id) \in WantedChunkIds(asset)}}

TopLevelByStringId(report, asset) ==
    {m \in NewSet(report.modules) :
        \E c \in NewSet(m.chunks) : String(c) \in WantedChunkIds(asset)}

C11_ChunkIdsComparedAsStrings ==
    (response.route = "asset-details" /\ response.status = 200 /\ HasReport
     /\ response.assetName \in AssetNamesOf(statsData) /\ IsArray(statsData.chunks)) =>
        LET asset == statsData.assets.items[FindAsset(statsData.assets.items,
                                                      response.assetName)]
        IN  IF InlinedByStringId(statsData, asset) # {}
            THEN Range(response.body) = InlinedByStringId(statsData, asset)
            ELSE Range(response.body) = TopLevelByStringId(statsData, asset)

\* an answer of the dependency route that came from the handler's end
AnsweredDependencies == response.route = "module-dependencies" /\ response.status = 200

\* the top-level modules of the Report
TopLevel == statsData.modules.items

(***************************************************************************)
(* C12.  The dependency route finds its target through modulesById by the  *)
(* string form of the module's id: when a top-level module has the number  *)
(* n as id and the request names "n", that module is the target, and --    *)
(* if it concatenates nothing -- the answer holds the modules that name it *)
(* as issuer (a.js with id 1, b.js with issuerId 1, request "1": [b.js]).  *)
(***************************************************************************)
C12_NumericIdFoundByString ==
    AnsweredDependencies =>
        \A i \in 1..Len(TopLevel) :
            (TopLevel[i].id.t = "num" /\ String(TopLevel[i].id) = response.moduleRef) =>
                /\ response.target = i
                /\ ~NonEmptyArray(TopLevel[i].modules) =>
                    \A j \in 1..Len(TopLevel) :
                        (Present(TopLevel[j].issuerId)
                         /\ String(TopLevel[j].issuerId) = response.moduleRef)
                        => TopLevel[j] \in Range(response.body)

\* the Report as normalization returned it
Fresh == GetWebpackStatsData(input).statsData

\* the request named a module and the handler found it
TargetFound == AnsweredDependencies /\ response.target # 0

(***************************************************************************)
(* C13.  When the target has a non-empty `modules` array the dependency    *)
(* route answers with exactly the modules of that array, non-increasing by *)
(* size; modules that name the target as their issuer are not added.       *)
(***************************************************************************)
C13_ConcatenatedOnly ==
    (TargetFound /\ NonEmptyArray(Fresh.modules.items[response.target].modules)) =>
        /\ IsPermutation(response.body,
                         Fresh.modules.items[response.target].modules.items)
        /\ NonIncreasing(response.body)

\* the target concatenates two modules and another module names it as issuer
C13_Witness ==
    /\ TargetFound
    /\ Fresh.modules.items[response.target].modules = Concatenated
    /\ \E j \in 1..Len(TopLevel) : TopLevel[j].issuer = TopLevel[response.target].identifier
    /\ Len(response.body) = 2
    /\ response.body # Concatenated.items

\* the places of the modules that name `target` as their issuer
IssuedBy(target) ==
    {j \in 1..Len(TopLevel) :
        \/ /\ Present(target.id) /\ Present(TopLevel[j].issuerId)
           /\ String(TopLevel[j].issuerId) = String(target.id)
        \/ /\ target.identifier.t = "str" /\ target.identifier.s # ""
           /\ TopLevel[j].issuer = target.identifier}

(***************************************************************************)
(* C14.  When the target has an empty or absent `modules` field the route  *)
(* answers with exactly the top-level modules whose issuerId has the       *)
(* string form of the target's id (both present, whatever their types) or  *)
(* whose issuer is the target's non-empty identifier, each of them once.   *)
(***************************************************************************)
C14_IssuerScanExact ==
    (TargetFound /\ ~NonEmptyArray(TopLevel[response.target].modules)) =>
        /\ Range(response.body) = {TopLevel[j] : j \in IssuedBy(TopLevel[response.target])}
        /\ Len(response.body) = Cardinality(IssuedBy(TopLevel[response.target]))

\* the target has the number 1 as id; one module names it by the string "1"
\* and by its identifier, another by the number 1
C14_Witness ==
    /\ TargetFound
    /\ TopLevel[response.target].id = Num(1)
    /\ TopLevel[response.target].modules = Arr(<<>>)
    /\ Len(response.body) = 2
    /\ \E i, j \in 1..2 :
        /\ response.body[i].issuerId = Str("1")
        /\ response.body[i].issuer = TopLevel[response.target].identifier
        /\ response.body[j].issuerId = Num(1)

(***************************************************************************)
(* C15.  What the asset route and the dependency route answer with is      *)
(* non-increasing by size, a missing size counting as 0, on every path.    *)
(***************************************************************************)
C15_ResultsSorted ==
    response.route \in {"asset-details", "module-dependencies"} =>
        NonIncreasing(response.body)

\* the issuer scan collected a module without size before a module of size 2
C15_Witness ==
    /\ TargetFound
    /\ ~NonEmptyArray(TopLevel[response.target].modules)
    /\ Len(response.body) = 2
    /\ response.body[1].size = Num(2)
    /\ response.body[2].size = Undefined
    /\ response.body[1] = TopLevel[3]

(***************************************************************************)
(* C16.  No request changes the Report: whatever requests were answered,   *)
(* the Report the server holds is the one normalization returned, the      *)
(* order of every module's nested `modules` array included.                *)
(***************************************************************************)
C16_ReportNeverChanges ==
    (pc = "serving" /\ HasReport) => statsData = Fresh

(***************************************************************************)
(* C17.  The resolvers never throw: every asset request whose name could   *)
(* be decoded is answered from the helper's result, also when the helper   *)
(* reaches the top-level fallback and a module has no `chunks` array.      *)
(***************************************************************************)
C17_ResolversNeverThrow ==
    (response.route = "asset-details" /\ response.assetName # "") =>
        (~response.helperThrew /\ response.status = 200)

(***************************************************************************)
(* C18.  Requests need no coordination: in any order of asset and          *)
(* dependency requests, each answer is the one the same request gets from  *)
(* the Report as normalization returned it.                                *)
(***************************************************************************)
C18_AnswersAsOnFreshReport ==
    /\ (response.route = "asset-details" /\ response.status = 200) =>
        response.body = GetModulesForAsset(Fresh, response.assetName).value
    /\ AnsweredDependencies =>
        response.body = ModuleDependencies(Fresh, response.moduleRef).value

(***************************************************************************)
(* The page's filter worker (src/public/filter.worker.js): the assets of   *)
(* "/api/table" are filtered by size and name and given a percentage       *)
(* before the table shows them.                                            *)
(***************************************************************************)
\* typeof asset === 'object' && asset !== null && typeof asset.name === 'string'
IsValidAsset(asset) == "name" \in DOMAIN asset /\ asset.name.t = "str"

\* filter.slice(1, -1)
SliceInner(filter) == SubSeq(filter, 2, Len(filter) - 1)

\* filter.startsWith('/') && filter.endsWith('/')
IsSerializedRegExp(filter) ==
    /\ Len(filter) >= 1
    /\ SubSeq(filter, 1, 1) = "/"
    /\ SubSeq(filter, Len(filter), Len(filter)) = "/"

\* new RegExp(source) throws a SyntaxError for a character class that is
\* not closed
IsInvalidRegExp(source) == Includes(source, "[") /\ ~Includes(source, "]")

Backslash == SubSeq("\\", 1, 1)

\* the atoms of a pattern without its anchors: an escaped character and any
\* other character stand for themselves, "." stands for any character
RECURSIVE Atoms(_)
Atoms(source) ==
    IF source = "" THEN <<>>
    ELSE IF Head(source) = Backslash /\ Len(source) >= 2
    THEN <<[any |-> FALSE, ch |-> SubSeq(source, 2, 2)]>>
         \o Atoms(SubSeq(source, 3, Len(source)))
    ELSE <<[any |-> Head(source) = ".", ch |-> Head(source)]>>
         \o Atoms(SubSeq(source, 2, Len(source)))

\* regex.test(name) of new RegExp(source), for patterns made of characters,
\* escapes, ".", a leading "^" and a trailing "$"
RegExpTest(source, name) ==
    LET fromStart == Len(source) >= 1 /\ Head(source) = "^"
        afterStart == IF fromStart THEN SubSeq(source, 2, Len(source)) ELSE source
        toEnd == /\ Len(afterStart) >= 1
                 /\ SubSeq(afterStart, Len(afterStart), Len(afterStart)) = "$"
                 /\ ~( /\ Len(afterStart) >= 2
                       /\ SubSeq(afterStart, Len(afterStart) - 1,
                                 Len(afterStart) - 1) = Backslash )
        atoms == Atoms(IF toEnd THEN SubSeq(afterStart, 1, Len(afterStart) - 1)
                       ELSE afterStart)
    IN  \E pos \in 1..(Len(name) - Len(atoms) + 1) :
            /\ fromStart => pos = 1
            /\ toEnd => pos + Len(atoms) - 1 = Len(name)
            /\ \A k \in 1..Len(atoms) :
                atoms[k].any \/ atoms[k].ch = SubSeq(name, pos + k - 1, pos + k - 1)

\* lines 25-39: the loop over excludeFilters, for a name
ExcludedBy(filter, name) ==
    IF IsSerializedRegExp(filter)
    THEN ~IsInvalidRegExp(SliceInner(filter)) /\ RegExpTest(SliceInner(filter), name)
    ELSE Includes(name, filter)

\* lines 14-41: the callback of allAssets.filter; reading excludeFilters.length
\* throws a TypeError when excludeFilters is no array
KeepsAsset(asset, minSizeBytes, excludeFilters) ==
    /\ IsValidAsset(asset)
    /\ ~(SizeOrZero(asset) < minSizeBytes)
    /\ \A i \in 1..Len(excludeFilters.items) :
        ~ExcludedBy(excludeFilters.items[i], asset.name.s)

FilterThrows(allAssets, minSizeBytes, excludeFilters) ==
    /\ IsArray(allAssets)
    /\ ~IsArray(excludeFilters)
    /\ \E i \in 1..Len(allAssets.items) :
        IsValidAsset(allAssets.items[i]) /\ ~(SizeOrZero(allAssets.items[i]) < minSizeBytes)

\* filterAssets, lines 10-43, where it does not throw
FilterAssets(allAssets, minSizeBytes, excludeFilters) ==
    IF ~IsArray(allAssets) THEN <<>>
    ELSE SelectSeq(allAssets.items,
                   LAMBDA asset : KeepsAsset(asset, minSizeBytes, excludeFilters))

\* assets.reduce((sum, asset) => sum + (asset.size ?? 0), 0)
RECURSIVE SumOfSizes(_)
SumOfSizes(assets) ==
    IF assets = <<>> THEN 0 ELSE SizeOrZero(Head(assets)) + SumOfSizes(Tail(assets))

\* the largest size among the assets, 0 for no asset
LargestSize(assets) ==
    IF assets = <<>> THEN 0
    ELSE CHOOSE n \in {SizeOrZero(assets[i]) : i \in 1..Len(assets)} :
            \A i \in 1..Len(assets) : SizeOrZero(assets[i]) <= n

\* Math.max(0, Math.min(100, (part / whole) * 100)) in tenths of a percent,
\* rounded as toFixed(1) rounds (the half goes up)
Tenths(part, whole) ==
    LET rounded == (2000 * part + whole) \div (2 * whole) IN
    IF rounded > 1000 THEN 1000 ELSE IF rounded < 0 THEN 0 ELSE rounded

\* (tenths / 10).toFixed(1)
ToFixed1(tenths) == DecimalString(tenths \div 10) \o "." \o DecimalString(tenths % 10)

\* lines 53-57: the percentage of one asset
Percentage(sizeBytes, whole) ==
    IF whole > 0 /\ sizeBytes > 0 THEN ToFixed1(Tenths(sizeBytes, whole)) ELSE ToFixed1(0)

\* { ...asset, percentage }
WithPercentage(asset, percentage) ==
    [f \in DOMAIN asset \cup {"percentage"} |->
        IF f = "percentage" THEN Str(percentage) ELSE asset[f]]

\* mutant of CalculatePercentages: sizes are measured against the largest
CalculatePercentagesOfLargest(assets) ==
    [processedAssets |->
        [i \in 1..Len(assets) |->
            WithPercentage(assets[i],
                           Percentage(SizeOrZero(assets[i]), LargestSize(assets)))],
     totalSize |-> SumOfSizes(assets)]

\* calculatePercentages, lines 50-64
CalculatePercentages(assets) ==
    [processedAssets |->
        [i \in 1..Len(assets) |->
            WithPercentage(assets[i],
                           Percentage(SizeOrZero(assets[i]), SumOfSizes(assets)))],
     totalSize |-> SumOfSizes(assets)]

MsgNoLength == "Cannot read properties of undefined (reading 'length')"

\* lines 68-93: the message the handler posts for event.data
Answer(data) ==
    IF FilterThrows(data.allAssets, data.minSizeBytes, data.excludeFilters)
    THEN [type |-> "ERROR", payload |-> MsgNoLength]
    ELSE [type |-> "RESULT",
          payload |-> CalculatePercentages(
                        FilterAssets(data.allAssets, data.minSizeBytes,
                                     data.excludeFilters))]

\* self.onmessage, lines 67-94, run on the oldest message of the inbox
OnMessage ==
    /\ inbox # <<>>
    /\ eventData' = Head(inbox)
    /\ inbox' = Tail(inbox)
    /\ posted' = Answer(Head(inbox))
    /\ outbox' = Append(outbox, Answer(Head(inbox)))
    /\ UNCHANGED <<command, input, pc, rawStats, statsData, exitCode, stderr,
                   outputFile, response>>
    /\ UNCHANGED pageVars

MaxWorkerAssets == 2   \* longest allAssets array of a message
MaxFilters == 1        \* longest excludeFilters array of a message

WorkerAsset(name, size) == [name |-> name, size |-> size]

\* what an element of allAssets can be: assets, an object whose name is no
\* string, null
WorkerAssetValues ==
    { WorkerAsset(Str("a.js"), Undefined), WorkerAsset(Str("a.js"), Num(2048)),
      WorkerAsset(Str("a.js.map"), Num(1024)), WorkerAsset(Str("lib/b.js"), Num(1024)),
      WorkerAsset(Str("lib/b.js"), Num(2048)), WorkerAsset(Num(7), Num(2048)), Null }

\* plain strings and serialized regular expressions, one of them invalid
ExcludePatterns == {"lib/", ".map", "/\\.map$/", "/^a/", "/[/", "/"}

\* minSizeKb * 1024 for 0 and 1.5 KB
MinSizes == {0, 1536}

WorkerMessages ==
    {[allAssets |-> a, minSizeBytes |-> m, excludeFilters |-> f] :
        a \in {Arr(xs) : xs \in SeqsUpTo(WorkerAssetValues, MaxWorkerAssets)},
        m \in MinSizes,
        f \in {Undefined} \cup {Arr(ps) : ps \in SeqsUpTo(ExcludePatterns, MaxFilters)}}

\* the page sent one message; the server plays no part
InitWorker ==
    /\ command = "serve"
    /\ input = Undefined
    /\ pc = "start"
    /\ rawStats = Undefined
    /\ statsData = Undefined
    /\ exitCode = -1
    /\ stderr = <<>>
    /\ outputFile = Undefined
    /\ response = NoResponse
    /\ eventData = NoMessage
    /\ posted = NoMessage
    /\ inbox \in {<<m>> : m \in WorkerMessages}
    /\ outbox = <<>>
    /\ app = Undefined
    /\ item = Undefined
    /\ fetches = <<>>

NextWorker == OnMessage

SpecWorker == InitWorker /\ [][NextWorker]_vars

\* the worker answered a message whose assets and filters are arrays
Filtered ==
    /\ posted.type = "RESULT"
    /\ IsArray(eventData.allAssets)
    /\ IsArray(eventData.excludeFilters)

\* a pattern written as /regex/: a regular expression between two slashes
IsRegexPattern(pattern) ==
    /\ Len(pattern) >= 2
    /\ SubSeq(pattern, 1, 1) = "/"
    /\ SubSeq(pattern, Len(pattern), Len(pattern)) = "/"

\* the name matches the pattern: the regular expression of a /regex/
\* pattern (an invalid one matches nothing), else the plain string
MatchesPattern(pattern, name) ==
    IF IsRegexPattern(pattern)
    THEN /\ ~IsInvalidRegExp(SubSeq(pattern, 2, Len(pattern) - 1))
         /\ RegExpTest(SubSeq(pattern, 2, Len(pattern) - 1), name)
    ELSE Includes(name, pattern)

HiddenAsDocumented(asset) ==
    \/ OrderingSize(asset) < eventData.minSizeBytes
    \/ \E i \in 1..Len(eventData.excludeFilters.items) :
        MatchesPattern(eventData.excludeFilters.items[i], asset.name.s)

\* the assets the table shows, without the percentage the worker added
Displayed ==
    [i \in 1..Len(posted.payload.processedAssets) |->
        WorkerAsset(posted.payload.processedAssets[i].name,
                    posted.payload.processedAssets[i].size)]

(***************************************************************************)
(* C19.  The filter hides an asset exactly when its size (0 if missing) is *)
(* below the minimum in bytes, or its name contains a plain-string         *)
(* pattern, or its name matches a /regex/ pattern; the other valid assets  *)
(* are kept in the order of the input.                                     *)
(***************************************************************************)
C19_HiddenExactlyAsDocumented ==
    Filtered =>
        Displayed = SelectSeq(eventData.allAssets.items,
                              LAMBDA asset : IsValidAsset(asset) /\ ~HiddenAsDocumented(asset))

MaxInFlight == 2    \* most messages the model lets wait in the inbox

\* String.prototype.trim, of blanks
Trim(s) ==
    LET at == {i \in 1..Len(s) : SubSeq(s, i, i) # " "} IN
    IF at = {} THEN ""
    ELSE SubSeq(s, CHOOSE i \in at : \A j \in at : i <= j,
                   CHOOSE i \in at : \A j \in at : j <= i)

\* s.split(',')
RECURSIVE Split(_)
Split(s) ==
    LET at == {i \in 1..Len(s) : SubSeq(s, i, i) = ","} IN
    IF at = {} THEN <<s>>
    ELSE LET c == CHOOSE i \in at : \A j \in at : i <= j IN
         <<SubSeq(s, 1, c - 1)>> \o Split(SubSeq(s, c + 1, Len(s)))

\* the computed serializableExcludeFilters, lines 330-334
SerializableExcludeFilters(excludePatternsRaw) ==
    SelectSeq([i \in 1..Len(Split(excludePatternsRaw)) |->
                    Trim(Split(excludePatternsRaw)[i])],
              LAMBDA pattern : pattern # "")

\* the computed minSizeBytes, line 327, of a number
MinSizeBytes(minSizeKb) == minSizeKb * 1024

\* mutant of SkipsUpdate: a busy worker is sent the update as well
SendsWhileBusy(isWorkerProcessing) == FALSE

\* lines 392-396: the update is dropped while the worker is busy
SkipsUpdate(isWorkerProcessing) == isWorkerProcessing

\* updateWorker, lines 385-414: the refs after the call and the message it
\* posts; the JSON copy of data that came as JSON cannot fail, so the catch
\* of lines 409-413 is never entered
UpdateWorker(a) ==
    IF a.filterWorker = Null \/ ~Truthy(a.allAssets) \/ Len(a.allAssets.items) = 0
    THEN [app |-> [a EXCEPT !.processedAssets = <<>>, !.totalSizeFromWorker = 0],
          message |-> NoMessage]
    ELSE IF SkipsUpdate(a.isWorkerProcessing)
    THEN [app |-> a, message |-> NoMessage]
    ELSE [app |-> [a EXCEPT !.isWorkerProcessing = TRUE, !.workerError = Null],
          message |-> [allAssets |-> a.allAssets,
                       minSizeBytes |-> MinSizeBytes(a.minSizeKb),
                       excludeFilters |->
                           Arr(SerializableExcludeFilters(a.excludePatternsRaw))]]

\* a watcher's callback ran updateWorker on the refs `a`
Updated(a) ==
    /\ Len(inbox) < MaxInFlight
    /\ app' = UpdateWorker(a).app
    /\ inbox' = IF UpdateWorker(a).message = NoMessage THEN inbox
                ELSE Append(inbox, UpdateWorker(a).message)
    /\ UNCHANGED <<command, input, pc, rawStats, statsData, exitCode, stderr,
                   outputFile, response, eventData, posted, outbox, item, fetches>>

\* what /api/table answers with
AssetTables ==
    { Arr(<<WorkerAsset(Str("a.js"), Num(2048)), WorkerAsset(Str("a.js.map"), Num(1024))>>),
      Arr(<<WorkerAsset(Str("lib/b.js"), Num(2048)), WorkerAsset(Str("a.js"), Num(1024)),
            WorkerAsset(Str("c.js"), Undefined)>>) }

\* v-model.number="minSizeKb" and watch(minSizeKb, ...), lines 67 and 496
WatchMinSizeKb ==
    /\ app # Undefined
    /\ \E minSizeKb \in {0, 1, 2} \ {app.minSizeKb} :
        Updated([app EXCEPT !.minSizeKb = minSizeKb])

\* v-model.lazy="excludePatternsRaw" and watch(excludePatternsRaw, ...),
\* lines 73 and 497
WatchExcludePatternsRaw ==
    /\ app # Undefined
    /\ \E excludePatternsRaw \in {"", ".map", " lib/ , /^a/,"} \ {app.excludePatternsRaw} :
        Updated([app EXCEPT !.excludePatternsRaw = excludePatternsRaw])

\* onMounted up to its first await, lines 503-510, with initializeWorker,
\* lines 416-444
OnMounted ==
    /\ app # Undefined
    /\ app.filterWorker = Null
    /\ ~app.isLoading
    /\ app' = [app EXCEPT !.filterWorker = Str("./filter.worker.js"),
                          !.isLoading = TRUE, !.fetchError = Null]
    /\ UNCHANGED <<command, input, pc, rawStats, statsData, exitCode, stderr,
                   outputFile, response, item, fetches>>
    /\ UNCHANGED workerVars

\* onMounted after its fetches settled, lines 510-530, and the callback of
\* watch(allAssets, ...), line 500
OnMountedResumes ==
    /\ app # Undefined
    /\ app.isLoading
    /\ \/ \E assetsData \in AssetTables :
            Updated([app EXCEPT !.allAssets = assetsData, !.isLoading = FALSE])
       \/ Updated([app EXCEPT !.fetchError = Str("Table fetch failed: 500"),
                              !.allAssets = Arr(<<>>), !.isLoading = FALSE])

\* filterWorker.onmessage, lines 419-432, run on the oldest message of the
\* outbox
FilterWorkerOnMessage ==
    /\ app # Undefined
    /\ outbox # <<>>
    /\ LET data == Head(outbox) IN
       app' = [(IF data.type = "RESULT"
                THEN [app EXCEPT !.processedAssets = data.payload.processedAssets,
                                 !.totalSizeFromWorker = data.payload.totalSize,
                                 !.workerError = Null]
                ELSE IF data.type = "ERROR"
                THEN [app EXCEPT !.workerError = Str(data.payload),
                                 !.processedAssets = <<>>,
                                 !.totalSizeFromWorker = 0]
                ELSE app)
               EXCEPT !.isWorkerProcessing = FALSE]
    /\ outbox' = Tail(outbox)
    /\ UNCHANGED <<command, input, pc, rawStats, statsData, exitCode, stderr,
                   outputFile, response, eventData, posted, inbox, item, fetches>>

\* the refs as setup() creates them, lines 298-322, with nothing in
\* localStorage
InitialApp ==
    [filterWorker |-> Null, isWorkerProcessing |-> FALSE, workerError |-> Null,
     processedAssets |-> <<>>, totalSizeFromWorker |-> 0,
     allAssets |-> Arr(<<>>), isLoading |-> FALSE, fetchError |-> Null,
     minSizeKb |-> 1, excludePatternsRaw |-> "",
     isModalVisible |-> FALSE, isModalLoading |-> FALSE, modalError |-> Null,
     selectedAsset |-> Null, selectedAssetModules |-> <<>>,
     maxModuleSizeInModal |-> 0, modalFilterText |-> ""]

\* the page was opened; the server plays no part
InitPage ==
    /\ command = "serve"
    /\ input = Undefined
    /\ pc = "start"
    /\ rawStats = Undefined
    /\ statsData = Undefined
    /\ exitCode = -1
    /\ stderr = <<>>
    /\ outputFile = Undefined
    /\ response = NoResponse
    /\ eventData = NoMessage
    /\ posted = NoMessage
    /\ inbox = <<>>
    /\ outbox = <<>>
    /\ app = InitialApp
    /\ item = Undefined
    /\ fetches = <<>>

NextPage ==
    \/ OnMounted
    \/ OnMountedResumes
    \/ WatchMinSizeKb
    \/ WatchExcludePatternsRaw
    \/ OnMessage
    \/ FilterWorkerOnMessage

\* the worker's and the page's event loops run a handler for every message
\* that waits
SpecPage ==
    /\ InitPage
    /\ [][NextPage]_vars
    /\ WF_vars(OnMessage)
    /\ WF_vars(FilterWorkerOnMessage)

(***************************************************************************)
(* C21.  Filter changes are applied automatically: whatever changes of the *)
(* minimum size and of the exclude patterns were made, and also when one   *)
(* was made while the worker was busy, once the worker is idle the table   *)
(* shows the filter result for the latest values of both.                  *)
(***************************************************************************)
\* no request waits, is worked on or waits to be taken back
WorkerIdle == ~app.isWorkerProcessing /\ inbox = <<>> /\ outbox = <<>>

\* what the worker answers for the refs as they are
LatestResult ==
    Answer([allAssets |-> app.allAssets,
            minSizeBytes |-> MinSizeBytes(app.minSizeKb),
            excludeFilters |-> Arr(SerializableExcludeFilters(app.excludePatternsRaw))])

C21_LatestFiltersShown ==
    WorkerIdle =>
        /\ LatestResult.type = "RESULT"
        /\ app.processedAssets = LatestResult.payload.processedAssets

(***************************************************************************)
(* C22.  Shape detection is ordered and the first match wins: a document   *)
(* with a non-empty top-level `modules` array is itself the Report, also   *)
(* when it has a non-empty `children` array with qualifying children; if   *)
(* it has no `assets` array normalize fails with the kind                  *)
(* MissingAssetsArray and no child becomes the Report.                     *)
(***************************************************************************)
C22_ModulesShapeFirst ==
    (input.t = "obj" /\ NonEmptyArray(input.modules)) =>
        /\ HasReport => statsData = Normalized(input)
        /\ Qualifies(input) => ~NormalizeFailed
        /\ ~Qualifies(input) =>
            /\ ~HasReport
            /\ pc # "serving"
            /\ NormalizeFailed => KindOf(ThrownMessage) = "MissingAssetsArray"
            /\ (pc # "start" /\ stderr \notin {MsgBadPort, MsgNoFile}) => NormalizeFailed

\* top-level modules, no top-level assets, a qualifying child: the command
\* ended with the failure
C22_Witness ==
    /\ NormalizeFailed
    /\ input.t = "obj"
    /\ NonEmptyArray(input.modules)
    /\ ~Qualifies(input)
    /\ NonEmptyArray(input.children)
    /\ \E i \in 1..Len(input.children.items) : Qualifies(input.children.items[i])
    /\ KindOf(ThrownMessage) = "MissingAssetsArray"

(***************************************************************************)
(* C23.  For a multi-build document in which no child is object-shaped     *)
(* with an `assets` array, the Report is the top-level object when that    *)
(* has an `assets` array, and normalize fails otherwise; no Report is ever *)
(* without an `assets` array.                                              *)
(***************************************************************************)
NoQualifyingChild(doc) ==
    \A i \in 1..Len(doc.children.items) : ~Qualifies(doc.children.items[i])

C23_MultiBuildFallback ==
    /\ (MultiBuild(input) /\ NoQualifyingChild(input)) =>
        /\ HasReport => (Qualifies(input) /\ statsData = Normalized(input))
        /\ Qualifies(input) => ~NormalizeFailed
        /\ ~Qualifies(input) =>
            /\ pc # "serving"
            /\ (pc # "start" /\ stderr \notin {MsgBadPort, MsgNoFile}) => NormalizeFailed
    /\ HasReport => statsData.assets.t = "arr"

\* children without assets, top-level assets: the server serves the
\* top-level object
C23_Witness ==
    /\ pc = "serving"
    /\ MultiBuild(input)
    /\ NoQualifyingChild(input)
    /\ \E i \in 1..Len(input.children.items) : input.children.items[i].t = "obj"
    /\ statsData = Normalized(input)
    /\ statsData.assets.items # <<>>

(***************************************************************************)
(* C24.  When a chunk of the Report whose id is among the asset's chunk    *)
(* ids inlines modules, getModulesForAsset returns exactly the modules     *)
(* those chunks list: every listed module object once, a module listed     *)
(* with equal properties under two chunks being two objects, and no module *)
(* of a chunk the asset does not name.                                     *)
(***************************************************************************)
Occurrences(x, xs) == Cardinality({i \in 1..Len(xs) : xs[i] = x})

\* the same elements, each as often
SameBag(xs, ys) ==
    /\ Len(xs) = Len(ys)
    /\ \A x \in Range(xs) : Occurrences(x, xs) = Occurrences(x, ys)

\* the module objects listed by the chunks whose id is in `wanted`, from
\* chunk i on
RECURSIVE ListedFrom(_, _, _)
ListedFrom(chunks, wanted, i) ==
    IF i > Len(chunks) THEN <<>>
    ELSE (IF chunks[i].id \in wanted /\ IsArray(chunks[i].modules)
          THEN chunks[i].modules.items ELSE <<>>)
         \o ListedFrom(chunks, wanted, i + 1)

\* an asset request for an asset of the Report was answered
AnsweredAsset ==
    /\ response.route = "asset-details"
    /\ HasReport
    /\ response.assetName \in AssetNamesOf(statsData)

AskedAsset == statsData.assets.items[FindAsset(statsData.assets.items, response.assetName)]

\* what the chunks the asked asset names list
Listed == ListedFrom(statsData.chunks.items, NewSet(AskedAsset.chunks), 1)

Intersecting ==
    SelectSeq(statsData.modules.items,
              LAMBDA m : NewSet(m.chunks) \cap NewSet(AskedAsset.chunks) # {})

C25_FallbackOnlyWhenNoneInlined ==
    AnsweredAsset =>
        IF Listed = <<>>
        THEN response.status = 200 /\ SameBag(response.body, Intersecting)
        ELSE SameBag(response.body, Listed)

(***************************************************************************)
(* C26.  The dependency route resolves its target by the first match in    *)
(* the order modulesById, modulesByIdentifier, then the first module whose *)
(* `name` is the reference, the last tried only when the reference         *)
(* contains "/"; a reference that is one module's id and another module's  *)
(* identifier names the module with that id; when nothing matches the      *)
(* answer is the empty array with status 200.                              *)
(***************************************************************************)
\* the places of the top-level modules whose id, identifier, name is the
\* reference
WithId(ref) == {i \in 1..Len(TopLevel) : TopLevel[i].id = Str(ref)}
WithIdentifier(ref) == {i \in 1..Len(TopLevel) : TopLevel[i].identifier = Str(ref)}
WithName(ref) == {i \in 1..Len(TopLevel) : TopLevel[i].name = Str(ref)}

\* the places a name match may be taken from
NameTried(ref) == IF Includes(ref, "/") THEN WithName(ref) ELSE {}

C26_TargetByIdFirst ==
    (response.route = "module-dependencies" /\ response.moduleRef # "") =>
        LET ref == response.moduleRef IN
        /\ response.status = 200
        /\ IF WithId(ref) # {} THEN response.target \in WithId(ref)
           ELSE IF WithIdentifier(ref) # {} THEN response.target \in WithIdentifier(ref)
           ELSE IF NameTried(ref) # {}
           THEN /\ response.target \in NameTried(ref)
                /\ \A i \in NameTried(ref) : response.target <= i
           ELSE response.target = 0 /\ response.body = <<>>

\* "./a.js" is the name of the first module, the identifier of the second
\* and the id of the third: the third is the target, and the module that
\* names it as issuer is the answer
C26_Witness ==
    /\ AnsweredDependencies
    /\ response.moduleRef = "./a.js"
    /\ TopLevel[1].name = Str("./a.js")
    /\ Len(TopLevel) >= 3
    /\ TopLevel[2].identifier = Str("./a.js")
    /\ TopLevel[3].id = Str("./a.js")
    /\ response.target = 3
    /\ response.body = <<TopLevel[2]>>

(***************************************************************************)
(* The page's asset modal (showModuleDetails, closeModal) and one item of  *)
(* its dependency tree (ModuleItem).  A fetch that has not settled is a    *)
(* record of `fetches`: its route, its parameter, and whether a later call *)
(* of showModuleDetails or closeModal followed it.                         *)
(***************************************************************************)
MaxFetches == 2    \* most fetch requests the model lets be unsettled

\* the unsettled requests of a route: their places in `fetches`
Unsettled(route) == {i \in 1..Len(fetches) : fetches[i].route = route}

\* the sequence without its element at place i
Remove(seq, i) == SubSeq(seq, 1, i - 1) \o SubSeq(seq, i + 1, Len(seq))

\* every unsettled asset request was followed by a later call
Superseded ==
    [i \in 1..Len(fetches) |->
        IF fetches[i].route = "asset-details"
        THEN [fetches[i] EXCEPT !.superseded = TRUE] ELSE fetches[i]]

\* what /api/asset-details/<assetName> answers with
DetailsOf(assetName) ==
    CASE assetName = "a.js" ->
            <<[name |-> Str("./a1.js"), size |-> Num(3072)],
              [name |-> Str("./a2.js"), size |-> Num(1024)]>>
      [] assetName = "lib/b.js" -> <<[name |-> Str("./b1.js"), size |-> Undefined]>>
      [] OTHER -> <<>>

\* lines 460-471: { ...mod, size, percentage } of every module; Number(m.size)
\* || 0 is the size or 0, the percentage is kept in tenths of a percent
WithModulePercentages(modules) ==
    [i \in 1..Len(modules) |->
        [name |-> modules[i].name,
         size |-> Num(SizeOrZero(modules[i])),
         percentage |-> IF SumOfSizes(modules) > 0
                        THEN Tenths(SizeOrZero(modules[i]), SumOfSizes(modules))
                        ELSE 0]]

\* showModuleDetails up to its first await, lines 447-457, for the name of a
\* row of the table, line 156
ShowModuleDetails ==
    /\ app # Undefined
    /\ Len(fetches) < MaxFetches
    /\ \E assetName \in {app.processedAssets[i].name.s :
                            i \in 1..Len(app.processedAssets)} :
        /\ app' = [app EXCEPT
                    !.selectedAsset =
                        IF FindAsset(app.allAssets.items, assetName) # 0
                        THEN app.allAssets.items[FindAsset(app.allAssets.items, assetName)]
                        ELSE [name |-> Str(assetName)],
                    !.isModalVisible = TRUE,
                    !.isModalLoading = TRUE,
                    !.modalError = Null,
                    !.selectedAssetModules = <<>>,
                    !.modalFilterText = ""]
        /\ fetches' = Append(Superseded, [route |-> "asset-details", param |-> assetName,
                                        superseded |-> FALSE])
    /\ UNCHANGED <<command, input, pc, rawStats, statsData, exitCode, stderr,
                   outputFile, response, item>>
    /\ UNCHANGED workerVars

\* showModuleDetails after its fetch settled, lines 457-478; the requests
\* settle in any order
ShowModuleDetailsResumes ==
    /\ app # Undefined
    /\ \E i \in Unsettled("asset-details"), ok \in BOOLEAN :
        /\ app' =
            [(IF ok
              THEN [app EXCEPT
                     !.selectedAssetModules =
                         WithModulePercentages(DetailsOf(fetches[i].param)),
                     !.maxModuleSizeInModal =
                         LargestSize(WithModulePercentages(DetailsOf(fetches[i].param)))]
              ELSE [app EXCEPT !.modalError =
                        Str("Failed to fetch details: 500 Internal Server Error")])
             EXCEPT !.isModalLoading = FALSE]
        /\ fetches' = Remove(fetches, i)
    /\ UNCHANGED <<command, input, pc, rawStats, statsData, exitCode, stderr,
                   outputFile, response, item>>
    /\ UNCHANGED workerVars

\* closeModal, lines 481-487
CloseModal ==
    /\ app # Undefined
    /\ app.isModalVisible
    /\ app' = [app EXCEPT !.isModalVisible = FALSE,
                          !.selectedAsset = Null,
                          !.selectedAssetModules = <<>>,
                          !.modalError = Null,
                          !.modalFilterText = ""]
    /\ fetches' = Superseded
    /\ UNCHANGED <<command, input, pc, rawStats, statsData, exitCode, stderr,
                   outputFile, response, item>>
    /\ UNCHANGED workerVars

\* mutant of NeedsChildren: a fetch that has not settled does not count
NeedsChildrenAgain(it) ==
    /\ it.isExpanded
    /\ Len(it.children) = 0
    /\ ~Truthy(it.errorLoadingChildren)

\* the condition of line 272, on the refs of the item
NeedsChildren(it) ==
    /\ it.isExpanded
    /\ Len(it.children) = 0
    /\ ~it.isLoadingChildren
    /\ ~Truthy(it.errorLoadingChildren)

\* toggleExpand up to its first await, lines 269-278; the throw of line 277
\* is caught before anything was awaited
ToggleExpand ==
    /\ item # Undefined
    /\ LET flipped == [item EXCEPT !.isExpanded = ~item.isExpanded]
           idToFetch == Coalesce(item.module.id, item.module.identifier)
       IN
       IF ~NeedsChildren(flipped)
       THEN item' = flipped /\ UNCHANGED fetches
       ELSE IF ~Truthy(idToFetch)
       THEN /\ item' = [flipped EXCEPT
                        !.errorLoadingChildren = Str("Module has no ID or Identifier."),
                        !.isLoadingChildren = FALSE]
            /\ UNCHANGED fetches
       ELSE /\ Len(fetches) < MaxFetches
            /\ item' = [flipped EXCEPT !.isLoadingChildren = TRUE,
                                       !.errorLoadingChildren = Null]
            /\ fetches' = Append(fetches, [route |-> "module-dependencies",
                                           param |-> idToFetch,
                                           superseded |-> FALSE])
    /\ UNCHANGED <<command, input, pc, rawStats, statsData, exitCode, stderr,
                   outputFile, response, app>>
    /\ UNCHANGED workerVars

\* toggleExpand after its fetch settled, lines 278-286: the route answered
\* with no module or with one, or the fetch failed
ToggleExpandResumes ==
    /\ item # Undefined
    /\ \E i \in Unsettled("module-dependencies") :
        /\ \/ \E children \in {<<>>, <<[name |-> Str("./d.js"), size |-> Num(1)]>>} :
                item' = [item EXCEPT !.children = children,
                                     !.isLoadingChildren = FALSE]
           \/ \E message \in {"API Error: 500 Internal Server Error", "Failed to fetch"} :
                item' = [item EXCEPT !.errorLoadingChildren = Str(message),
                                     !.isLoadingChildren = FALSE]
        /\ fetches' = Remove(fetches, i)
    /\ UNCHANGED <<command, input, pc, rawStats, statsData, exitCode, stderr,
                   outputFile, response, app>>
    /\ UNCHANGED workerVars

\* the module of the item: with an id, with an identifier only, with the
\* id 0, with neither
ItemModules ==
    {[id |-> k[1], identifier |-> k[2]] :
        k \in { <<Num(1), Str("/abs/a.js")>>, <<Undefined, Str("/abs/a.js")>>,
                <<Num(0), Str("/abs/a.js")>>, <<Undefined, Undefined>> }}

\* the page has loaded a table and shows it unfiltered; an item of the
\* dependency tree exists, its refs as setup() creates them, lines 262-267
InitModal ==
    /\ command = "serve"
    /\ input = Undefined
    /\ pc = "start"
    /\ rawStats = Undefined
    /\ statsData = Undefined
    /\ exitCode = -1
    /\ stderr = <<>>
    /\ outputFile = Undefined
    /\ response = NoResponse
    /\ eventData = NoMessage
    /\ posted = NoMessage
    /\ inbox = <<>>
    /\ outbox = <<>>
    /\ \E assetsData \in AssetTables :
        app = [InitialApp EXCEPT
                !.filterWorker = Str("./filter.worker.js"),
                !.allAssets = assetsData,
                !.minSizeKb = 0,
                !.processedAssets = CalculatePercentages(assetsData.items).processedAssets,
                !.totalSizeFromWorker = CalculatePercentages(assetsData.items).totalSize]
    /\ \E module \in ItemModules :
        item = [module |-> module, isExpanded |-> FALSE, isLoadingChildren |-> FALSE,
                children |-> <<>>, errorLoadingChildren |-> Null]
    /\ fetches = <<>>

NextModal ==
    \/ ShowModuleDetails
    \/ ShowModuleDetailsResumes
    \/ CloseModal
    \/ ToggleExpand
    \/ ToggleExpandResumes

SpecModal == InitModal /\ [][NextModal]_vars

(***************************************************************************)
(* C27.  isWorkerProcessing is true exactly while one filter request is    *)
(* outstanding (posted, and its answer not yet taken by the page): never   *)
(* more than one request is outstanding, the worker answers every request  *)
(* it handles with exactly one RESULT or ERROR message, and the flag       *)
(* always returns to false.                                                *)
(***************************************************************************)
Outstanding == Len(inbox) + Len(outbox)

C27_OneRequestAnswered ==
    /\ [](app.isWorkerProcessing <=> Outstanding = 1)
    /\ [](Outstanding <= 1)
    /\ [](\A i \in 1..Len(outbox) : outbox[i].type \in {"RESULT", "ERROR"})
    /\ [][Len(inbox') < Len(inbox) => Len(outbox') = Len(outbox) + 1]_vars
    /\ (app.isWorkerProcessing ~> ~app.isWorkerProcessing)

\* the worker answered the only request, the page has not taken the answer:
\* the flag is still up
C27_Witness ==
    /\ app.isWorkerProcessing
    /\ inbox = <<>>
    /\ Len(outbox) = 1
    /\ outbox[1].type = "RESULT"
    /\ outbox[1].payload.processedAssets # <<>>

(***************************************************************************)
(* C28.  The module list of the asset modal belongs to the asset that is   *)
(* selected: when showModuleDetails was called for an asset and then for   *)
(* another one, or the modal was closed, before the first answer came, the *)
(* late answer neither fills selectedAssetModules nor ends the loading     *)
(* state of the later request.                                             *)
(***************************************************************************)
\* the request of the latest call of showModuleDetails has not settled
LatestUnsettled ==
    \E i \in Unsettled("asset-details") : ~fetches[i].superseded

C28_ModalShowsSelectedAsset ==
    /\ app.selectedAssetModules # <<>> =>
        /\ app.selectedAsset # Null
        /\ app.selectedAssetModules =
               WithModulePercentages(DetailsOf(app.selectedAsset.name.s))
    /\ LatestUnsettled => app.isModalLoading

(***************************************************************************)
(* C29.  An item of the dependency tree has at most one dependency fetch   *)
(* unsettled, whatever is clicked; once a fetch gave a non-empty list, or  *)
(* once one failed, no click starts another fetch, and the error of a      *)
(* failed fetch stays.                                                     *)
(***************************************************************************)
DependencyFetches == Cardinality(Unsettled("module-dependencies"))

C29_OneDependencyFetch ==
    /\ [](DependencyFetches <= 1)
    /\ [][(item.children # <<>> \/ Truthy(item.errorLoadingChildren)) =>
            /\ DependencyFetches' <= DependencyFetches
            /\ Truthy(item.errorLoadingChildren) =>
                item'.errorLoadingChildren = item.errorLoadingChildren]_vars

\* the fetch of an item with the id 1 failed; the item is expanded, shows
\* the error and has nothing unsettled
C29_Witness ==
    /\ item.isExpanded
    /\ item.module.id = Num(1)
    /\ item.errorLoadingChildren = Str("API Error: 500 Internal Server Error")
    /\ item.children = <<>>
    /\ ~item.isLoadingChildren
    /\ DependencyFetches = 0

(***************************************************************************)
(* C30.  When normalize fails with a structural error the parsed document  *)
(* is as it was parsed: no default of errors, warnings or the counts, no   *)
(* coercion of modules or chunks and no sort of assets was written to it.  *)
(***************************************************************************)
C30_FailureLeavesDocument ==
    (NormalizeFailed /\ input # SyntaxError) => rawStats = input

\* a document whose errors the defaults would have replaced, and whose
\* assets the sort would have reordered, failed for its missing children
C30_Witness ==
    /\ NormalizeFailed
    /\ MultiBuild(input)
    /\ input.errors = Undefined
    /\ rawStats = input
    /\ ApplyDefaults(input) # input

====
